---- MODULE Spec2Model ----
(***************************************************************************)
(* Model of the TI/National bipolar PROM programmer: the firmware's        *)
(* command interpreter (table driven state machine), its programming       *)
(* engine (write_prom_byte, the scans) and the pins it drives.             *)
(*                                                                         *)
(* Characters are one-character strings; the serial lines are sequences of *)
(* characters.  A chip is the function from the addresses of its cells     *)
(* that are not blank to their bytes: a cell it does not list holds 0.     *)
(*                                                                         *)
(* Environment assumptions (the hardware, not the code):                   *)
(*  - the address pins are wired as the header comment of the firmware     *)
(*    says, and the data bus carries the content of the addressed cell     *)
(*    whenever the firmware samples it;                                    *)
(*  - a programming pulse either blows the fuses grounded on port L of the *)
(*    addressed cell or leaves the cell as it was; it blows a fuse only    *)
(*    with the supply on, stepped to 10.5 V, and the outputs enabled;      *)
(*  - a blown fuse stays blown.                                            *)
(***************************************************************************)
EXTENDS Integers, Sequences, FiniteSets, TLC

VARIABLES
    state,      \* loop(): state_t state
    cmd_data,   \* loop(): cmd_data_t cmd_data
    rx,         \* characters received on Serial and not yet read
    tx,         \* characters printed on Serial and not yet read by the host
    prom,       \* the fuses: prom[chip] lists the cells of the chip that are not blank
    hw,         \* the output pins and ports the firmware drives
    log,        \* pin, port, delay and bus events of the handler that ran last
    last,       \* history: the handler that ran last, the state it ran in, what
                \* it printed, the cell it addressed, write_prom_byte's locals
    parsed,     \* history: the tokens parsed since get_command ran last
    sent,       \* number of request lines the host has sent
    req,        \* history: the request the host sent last
    lines,      \* history: number of requests sent that end with a newline
    status,     \* history: the status lines ("R", "E") printed since start-up
    mark,       \* history: Len(status) when the last request was sent
    hung,       \* TRUE once get_command has run off the rule table for good
    host        \* the host program: its position, its locals, its buffers

vars == <<state, cmd_data, rx, tx, prom, hw, log, last, parsed, sent, req,
         lines, status, mark, hung, host>>

----------------------------------------------------------------------------
(* Bounds of the model *)

MaxRequests == 2

(* the reads of one run of the host program that return only a part of    *)
(* the characters pending on the link                                      *)
MaxSplits == 1

(* the lines of an Intel HEX file *)
MaxLines == 3

(* Program constants *)

CHIP_256X8 == 0
CHIP_512X8 == 1
NUM_CHIPS == 2

ST_ANY == 0
ST_READY == 1
ST_WAIT_CHIP == 2
ST_WAIT_ADDR == 3
ST_WAIT_VALUE == 4
ST_WAIT_TESTNO == 5
ST_WAIT_TEST_PARAMS == 6
ST_EXEC == 7

PROG_PULSE_LENGTH == 5
PROG_COOLING_DELAY == 15

LOW == 0
HIGH == 1

NUL == "NUL"

VERSION == <<"V", "0", "1", "0", "0", "0", "0">>

chip_sizes == [c \in 0..(NUM_CHIPS - 1) |-> IF c = CHIP_256X8 THEN 256 ELSE 512]

Bits == 0..7
Byte == 0..255

----------------------------------------------------------------------------
(* Bit arithmetic on naturals *)

Bit(x, b) == (x \div (2^b)) % 2

(* bitwise and, or of the n low bits of x and y *)
RECURSIVE BitAndN(_, _, _)
BitAndN(x, y, n) ==
    IF n = 0 \/ x = 0 \/ y = 0 THEN 0
    ELSE (x % 2) * (y % 2) + 2 * BitAndN(x \div 2, y \div 2, n - 1)

RECURSIVE BitOrN(_, _, _)
BitOrN(x, y, n) ==
    IF n = 0 THEN 0
    ELSE IF x = 0 THEN y % (2^n)
    ELSE IF y = 0 THEN x % (2^n)
    ELSE (IF (x % 2) + (y % 2) > 0 THEN 1 ELSE 0)
         + 2 * BitOrN(x \div 2, y \div 2, n - 1)

And8(x, y) == BitAndN(x % 256, y % 256, 8)
Or8(x, y) == BitOrN(x % 256, y % 256, 8)
Not8(x) == 255 - (x % 256)

----------------------------------------------------------------------------
(* Characters *)

isSpace(c) == c \in {" ", "\t", "\n", "\r"}

UpperHex == <<"0", "1", "2", "3", "4", "5", "6", "7", "8", "9",
              "A", "B", "C", "D", "E", "F">>
LowerHex == <<"0", "1", "2", "3", "4", "5", "6", "7", "8", "9",
              "a", "b", "c", "d", "e", "f">>

isHexadecimalDigit(c) ==
    \E i \in 1..16 : UpperHex[i] = c \/ LowerHex[i] = c

HexDigitValue(c) ==
    (CHOOSE i \in 1..16 : UpperHex[i] = c \/ LowerHex[i] = c) - 1

(* Print::printNumber: most significant digit first, upper case, no padding *)
RECURSIVE printNumber(_, _)
printNumber(n, base) ==
    IF n < base THEN <<UpperHex[n + 1]>>
    ELSE Append(printNumber(n \div base, base), UpperHex[(n % base) + 1])

println(s) == s \o <<"\r", "\n">>

----------------------------------------------------------------------------
(* The board: b = [hw, log, prom].  Every operator below takes the board  *)
(* before a call and yields the board after it.                            *)

Ev(b, e) == [b EXCEPT !.log = Append(@, e)]

(* digitalWrite on the control pins; S2 is pin 30, bit 7 of port C *)
digitalWrite(b, pin, v) ==
    IF pin = "S2"
    THEN Ev([b EXCEPT !.hw.PORTC = (@ % 128) + 128 * v], <<"S2", v>>)
    ELSE Ev([b EXCEPT !.hw[pin] = v], <<pin, v>>)

(* With the constant masks of the code written as arithmetic:             *)
(*   address & B00011111            is  address % 32                       *)
(*   ( address >> 1 ) & B11100000   is  32 * ((address \div 64) % 8)       *)
(*   PORTC & B01111111              is  PORTC % 128                        *)
(*   ( address << 2 ) & B10000000   is  128 * ((address \div 32) % 2)      *)
(* and the | of values with no bit in common as their sum.                 *)
(* slip: address line A5 of the 512x8 chip (pin S2, PC7) is left alone *)
set_address_NoA5(b, chip_type, address) ==
    IF CHIP_256X8 = chip_type
    THEN Ev([b EXCEPT !.hw.PORTA = address % 256],
            <<"PORTA", address % 256>>)
    ELSE LET a == (address % 32) + 32 * ((address \div 64) % 8)
         IN  Ev([b EXCEPT !.hw.PORTA = a], <<"PORTA", a>>)

(* slip: the address bits 5 to 7 are not shifted to their pins *)
set_address_NoShift(b, chip_type, address) ==
    IF CHIP_256X8 = chip_type
    THEN Ev([b EXCEPT !.hw.PORTA = address % 256],
            <<"PORTA", address % 256>>)
    ELSE LET a == (address % 32) + 32 * ((address \div 32) % 8)
             c == (b.hw.PORTC % 128) + 128 * ((address \div 32) % 2)
         IN  Ev(Ev([b EXCEPT !.hw.PORTA = a, !.hw.PORTC = c],
                   <<"PORTA", a>>), <<"PORTC", c>>)

set_address(b, chip_type, address) ==
    IF CHIP_256X8 = chip_type
    THEN Ev([b EXCEPT !.hw.PORTA = address % 256],
            <<"PORTA", address % 256>>)
    ELSE LET a == (address % 32) + 32 * ((address \div 64) % 8)
             c == (b.hw.PORTC % 128) + 128 * ((address \div 32) % 2)
         IN  Ev(Ev([b EXCEPT !.hw.PORTA = a, !.hw.PORTC = c],
                   <<"PORTA", a>>), <<"PORTC", c>>)

enable_10V5(b) == digitalWrite(b, "VCC_10V5", HIGH)

disable_10V5(b) == digitalWrite(b, "VCC_10V5", LOW)

_power_on(b) == digitalWrite(b, "VCC_EN", LOW)

power_on(b) == _power_on(disable_10V5(b))

power_off(b) == digitalWrite(b, "VCC_EN", HIGH)

output_enable(b, chip_type) ==
    digitalWrite(IF CHIP_256X8 = chip_type THEN digitalWrite(b, "S2", LOW) ELSE b,
                 "S1", LOW)

output_disable(b, chip_type) ==
    digitalWrite(IF CHIP_256X8 = chip_type THEN digitalWrite(b, "S2", HIGH) ELSE b,
                 "S1", HIGH)

ground_pins(b, mask) == Ev([b EXCEPT !.hw.PORTL = mask], <<"PORTL", mask>>)

pullup_pins(b, mask) ==
    LET v == And8(b.hw.PORTL, Not8(mask))
    IN  Ev([b EXCEPT !.hw.PORTL = v], <<"PORTL", v>>)

delayMicroseconds(b, us) == Ev(b, <<"delayMicroseconds", us>>)

delay(b, ms) == Ev(b, <<"delay", ms>>)

(* The socket: which cell the address pins select (wiring of ports A, C) *)
CellAddr(chip_type, pins) ==
    IF CHIP_256X8 = chip_type
    THEN pins.PORTA
    ELSE (pins.PORTA % 32) + 32 * (pins.PORTC \div 128)
         + 64 * (pins.PORTA \div 32)

OutputsEnabled(chip_type, pins) ==
    /\ pins.S1 = LOW
    /\ (CHIP_256X8 = chip_type => pins.PORTC \div 128 = LOW)

(* The byte of a cell of the fuse arrays p *)
Cell(p, chip_type, address) ==
    IF address \in DOMAIN p[chip_type] THEN p[chip_type][address] ELSE 0

(* The fuse arrays p with the fuses of mask blown in one cell *)
Blown(p, chip_type, address, mask) ==
    LET v == Or8(Cell(p, chip_type, address), mask)
    IN  IF v = 0 THEN p
        ELSE [p EXCEPT ![chip_type] =
                [a \in (DOMAIN p[chip_type]) \cup {address} |->
                    IF a = address THEN v ELSE p[chip_type][a]]]

(* The data bus on port F *)
PINF(b, chip_type) == Cell(b.prom, chip_type, CellAddr(chip_type, b.hw))

(* The fuses during a programming pulse; ok says whether they blow *)
Pulse(b, chip_type, ok) ==
    IF /\ ok
       /\ b.hw.VCC_EN = LOW
       /\ b.hw.VCC_10V5 = HIGH
       /\ OutputsEnabled(chip_type, b.hw)
    THEN [b EXCEPT !.prom = Blown(@, chip_type, CellAddr(chip_type, b.hw),
                                  b.hw.PORTL)]
    ELSE b

(* slip: the outputs are enabled before the supply is stepped up *)
prog_bit_EnableFirst(b, chip_type, mask, ok) ==
    LET b0 == Ev(b, <<"prog_bit", mask>>)
        b1 == ground_pins(b0, mask)
        b2 == output_enable(b1, chip_type)
        b3 == enable_10V5(delayMicroseconds(b2, 100))
        b4 == Pulse(b3, chip_type, ok)
        b5 == output_disable(delay(b4, PROG_PULSE_LENGTH), chip_type)
        b6 == disable_10V5(b5)
    IN  pullup_pins(b6, mask)

prog_bit(b, chip_type, mask, ok) ==
    LET b0 == Ev(b, <<"prog_bit", mask>>)
        b1 == ground_pins(b0, mask)
        b2 == enable_10V5(b1)
        b3 == output_enable(delayMicroseconds(b2, 100), chip_type)
        b4 == Pulse(b3, chip_type, ok)
        b5 == output_disable(delay(b4, PROG_PULSE_LENGTH), chip_type)
        b6 == disable_10V5(b5)
    IN  pullup_pins(b6, mask)

(* Returns TRUE if the bit is programmed *)
read_bit(b, chip_type, mask) ==
    LET b1 == output_enable(b, chip_type)
        value == And8(PINF(b1, chip_type), mask) # 0
        b2 == Ev(b1, <<"read_bit", mask, value>>)
    IN  [b |-> output_disable(b2, chip_type), value |-> value]

read_prom_byte(b, chip_type, address) ==
    LET b1 == output_enable(set_address(b, chip_type, address), chip_type)
        value == PINF(b1, chip_type)
        b2 == Ev(b1, <<"PINF", CellAddr(chip_type, b1.hw), value>>)
    IN  [b |-> output_disable(b2, chip_type), value |-> value]

----------------------------------------------------------------------------
(* write_prom_byte.  fail is the bit position whose fuse does not blow    *)
(* when it is pulsed (8: every pulsed fuse blows).                         *)

(* Variants of BurnLoop, each with one slip, against which the properties  *)
(* of the burn algorithm are tested.                                       *)

(* slip: a bit that differs is pulsed whatever its direction *)
RECURSIVE BurnLoop_AnyDirection(_, _, _, _, _, _, _)
BurnLoop_AnyDirection(b, cmd, do_write, fail, existing, returned, bit) ==
    IF bit >= 8 THEN [b |-> b, returned |-> returned]
    ELSE
    LET mask == 2^bit
    IN  IF And8(existing, mask) # And8(cmd.value, mask)
        THEN IF do_write
             THEN LET b1 == prog_bit(_power_on(b), cmd.chip, mask, bit # fail)
                      r == read_bit(delayMicroseconds(b1, 10), cmd.chip, mask)
                      b2 == delay(power_off(r.b), PROG_COOLING_DELAY)
                  IN  IF ~r.value
                      THEN [b |-> b2, returned |-> returned]
                      ELSE BurnLoop_AnyDirection(b2, cmd, do_write, fail, existing,
                                                 Or8(returned, mask), bit + 1)
             ELSE BurnLoop_AnyDirection(b, cmd, do_write, fail, existing,
                                        Or8(returned, mask), bit + 1)
        ELSE BurnLoop_AnyDirection(b, cmd, do_write, fail, existing, returned, bit + 1)

(* slip: the loop goes on after a bit that is set and must be unset *)
RECURSIVE BurnLoop_NoStop(_, _, _, _, _, _, _)
BurnLoop_NoStop(b, cmd, do_write, fail, existing, returned, bit) ==
    IF bit >= 8 THEN [b |-> b, returned |-> returned]
    ELSE
    LET mask == 2^bit
    IN  IF And8(existing, mask) # And8(cmd.value, mask) /\ And8(existing, mask) = 0
        THEN IF do_write
             THEN LET b1 == prog_bit(_power_on(b), cmd.chip, mask, bit # fail)
                      r == read_bit(delayMicroseconds(b1, 10), cmd.chip, mask)
                      b2 == delay(power_off(r.b), PROG_COOLING_DELAY)
                  IN  IF ~r.value
                      THEN [b |-> b2, returned |-> returned]
                      ELSE BurnLoop_NoStop(b2, cmd, do_write, fail, existing,
                                           Or8(returned, mask), bit + 1)
             ELSE BurnLoop_NoStop(b, cmd, do_write, fail, existing,
                                  Or8(returned, mask), bit + 1)
        ELSE BurnLoop_NoStop(b, cmd, do_write, fail, existing, returned, bit + 1)

(* slip: the loop goes on to the next bit after a failed verification *)
RECURSIVE BurnLoop_NoBreak(_, _, _, _, _, _, _)
BurnLoop_NoBreak(b, cmd, do_write, fail, existing, returned, bit) ==
    IF bit >= 8 THEN [b |-> b, returned |-> returned]
    ELSE
    LET mask == 2^bit
    IN  IF And8(existing, mask) # And8(cmd.value, mask)
        THEN IF And8(existing, mask) = 0
             THEN IF do_write
                  THEN LET b1 == prog_bit(_power_on(b), cmd.chip, mask, bit # fail)
                           r == read_bit(delayMicroseconds(b1, 10), cmd.chip, mask)
                           b2 == delay(power_off(r.b), PROG_COOLING_DELAY)
                       IN  BurnLoop_NoBreak(b2, cmd, do_write, fail, existing,
                               IF r.value THEN Or8(returned, mask) ELSE returned,
                               bit + 1)
                  ELSE BurnLoop_NoBreak(b, cmd, do_write, fail, existing,
                                        Or8(returned, mask), bit + 1)
             ELSE [b |-> b, returned |-> returned]
        ELSE BurnLoop_NoBreak(b, cmd, do_write, fail, existing, returned, bit + 1)

(* slip: the bit is recorded as set before its verification is looked at *)
RECURSIVE BurnLoop_RecordFirst(_, _, _, _, _, _, _)
BurnLoop_RecordFirst(b, cmd, do_write, fail, existing, returned, bit) ==
    IF bit >= 8 THEN [b |-> b, returned |-> returned]
    ELSE
    LET mask == 2^bit
    IN  IF And8(existing, mask) # And8(cmd.value, mask)
        THEN IF And8(existing, mask) = 0
             THEN IF do_write
                  THEN LET b1 == prog_bit(_power_on(b), cmd.chip, mask, bit # fail)
                           r == read_bit(delayMicroseconds(b1, 10), cmd.chip, mask)
                           b2 == delay(power_off(r.b), PROG_COOLING_DELAY)
                       IN  IF ~r.value
                           THEN [b |-> b2, returned |-> Or8(returned, mask)]
                           ELSE BurnLoop_RecordFirst(b2, cmd, do_write, fail, existing,
                                                     Or8(returned, mask), bit + 1)
                  ELSE BurnLoop_RecordFirst(b, cmd, do_write, fail, existing,
                                            Or8(returned, mask), bit + 1)
             ELSE [b |-> b, returned |-> returned]
        ELSE BurnLoop_RecordFirst(b, cmd, do_write, fail, existing, returned, bit + 1)

(* slip: the bit is recorded as set only when it was really burnt *)
RECURSIVE BurnLoop_RecordBurntOnly(_, _, _, _, _, _, _)
BurnLoop_RecordBurntOnly(b, cmd, do_write, fail, existing, returned, bit) ==
    IF bit >= 8 THEN [b |-> b, returned |-> returned]
    ELSE
    LET mask == 2^bit
    IN  IF And8(existing, mask) # And8(cmd.value, mask)
        THEN IF And8(existing, mask) = 0
             THEN IF do_write
                  THEN LET b1 == prog_bit(_power_on(b), cmd.chip, mask, bit # fail)
                           r == read_bit(delayMicroseconds(b1, 10), cmd.chip, mask)
                           b2 == delay(power_off(r.b), PROG_COOLING_DELAY)
                       IN  IF ~r.value
                           THEN [b |-> b2, returned |-> returned]
                           ELSE BurnLoop_RecordBurntOnly(b2, cmd, do_write, fail,
                                    existing, Or8(returned, mask), bit + 1)
                  ELSE BurnLoop_RecordBurntOnly(b, cmd, do_write, fail, existing,
                                                returned, bit + 1)
             ELSE [b |-> b, returned |-> returned]
        ELSE BurnLoop_RecordBurntOnly(b, cmd, do_write, fail, existing, returned,
                                      bit + 1)

RECURSIVE BurnLoop(_, _, _, _, _, _, _)
BurnLoop(b, cmd, do_write, fail, existing, returned, bit) ==
    IF bit >= 8 THEN [b |-> b, returned |-> returned]
    ELSE
    LET mask == 2^bit
    IN  IF And8(existing, mask) # And8(cmd.value, mask)
        THEN IF And8(existing, mask) = 0
             THEN IF do_write
                  THEN LET b1 == prog_bit(_power_on(b), cmd.chip, mask, bit # fail)
                           r == read_bit(delayMicroseconds(b1, 10), cmd.chip, mask)
                           b2 == delay(power_off(r.b), PROG_COOLING_DELAY)
                       IN  IF ~r.value
                           THEN [b |-> b2, returned |-> returned]
                           ELSE BurnLoop(b2, cmd, do_write, fail, existing,
                                         Or8(returned, mask), bit + 1)
                  ELSE BurnLoop(b, cmd, do_write, fail, existing,
                                Or8(returned, mask), bit + 1)
             ELSE [b |-> b, returned |-> returned]
        ELSE BurnLoop(b, cmd, do_write, fail, existing, returned, bit + 1)

_set_st_ready(r) ==
    [r EXCEPT !.out = @ \o println(<<"R">>), !.state = ST_READY,
              !.b = Ev(@, <<"Serial", "R">>)]

(* slip: the supply is left as the handler left it *)
set_st_ready_NoPowerOff(r) == _set_st_ready(r)

set_st_ready(r) == _set_st_ready([r EXCEPT !.b = power_off(@)])

_set_st_error(r) ==
    [r EXCEPT !.out = @ \o println(<<"E">>), !.state = ST_READY,
              !.b = Ev(@, <<"Serial", "E">>)]

set_st_error(r) == _set_st_error([r EXCEPT !.b = power_off(@)])

(* The result of a handler: the board, the characters printed, the state  *)
(* returned, and the locals of write_prom_byte (-1 elsewhere).             *)
Result(b) == [b |-> b, out |-> <<>>, state |-> ST_ANY,
              existing |-> -1, returned |-> -1]

(* slip: returned starts at 0 and not at the byte read from the cell *)
write_prom_byte_FromZero(b, cmd, do_write, fail) ==
    LET rd == read_prom_byte(power_on(b), cmd.chip, cmd.address)
        existing == rd.value
        l == IF existing # cmd.value
             THEN BurnLoop(rd.b, cmd, do_write, fail, existing, 0, 0)
             ELSE [b |-> rd.b, returned |-> 0]
    IN  set_st_ready([Result(l.b) EXCEPT
                        !.out = println(printNumber(l.returned, 16)),
                        !.existing = existing,
                        !.returned = l.returned])

write_prom_byte(b, cmd, do_write, fail) ==
    LET rd == read_prom_byte(power_on(b), cmd.chip, cmd.address)
        existing == rd.value
        l == IF existing # cmd.value
             THEN BurnLoop(rd.b, cmd, do_write, fail, existing, existing, 0)
             ELSE [b |-> rd.b, returned |-> existing]
    IN  set_st_ready([Result(l.b) EXCEPT
                        !.out = println(printNumber(l.returned, 16)),
                        !.existing = existing,
                        !.returned = l.returned])

exec_write_prom_byte(b, cmd, fail) == write_prom_byte(b, cmd, TRUE, fail)

(* slip: the simulation asks write_prom_byte for a real write *)
exec_simul_write_prom_byte_Burns(b, cmd) == write_prom_byte(b, cmd, TRUE, 8)

exec_simul_write_prom_byte(b, cmd) == write_prom_byte(b, cmd, FALSE, 8)

exec_read_prom_byte(b, cmd) ==
    LET rd == read_prom_byte(power_on(b), cmd.chip, cmd.address)
    IN  set_st_ready([Result(rd.b) EXCEPT
                        !.out = println(printNumber(rd.value, 16))])

(* for ( ; address < hi; ++address ): l holds the loop variable, the      *)
(* board and the characters printed.  The addresses are taken in ascending *)
(* order; the range lo..hi-1 is split in halves to bound the nesting.      *)
RECURSIVE ReadPromLoop(_, _, _, _)
ReadPromLoop(l, chip, lo, hi) ==
    IF l.address >= hi THEN l
    ELSE IF hi = lo + 1
    THEN LET rd == read_prom_byte(l.b, chip, l.address)
         IN  [b |-> rd.b,
              address |-> l.address + 1,
              out |-> l.out \o (IF rd.value < 16 THEN <<"0">> ELSE <<>>)
                            \o printNumber(rd.value, 16)]
    ELSE LET mid == (lo + hi) \div 2
         IN  ReadPromLoop(ReadPromLoop(l, chip, lo, mid), chip, mid, hi)

exec_read_prom(b, cmd) ==
    LET l == ReadPromLoop(
                 [b |-> power_on(b), address |-> 0,
                  out |-> println(printNumber(chip_sizes[cmd.chip], 16))],
                 cmd.chip, 0, chip_sizes[cmd.chip])
    IN  set_st_ready([Result(l.b) EXCEPT !.out = println(l.out)])

(* for ( ; address < hi; ++address ) with its break: l holds the loop    *)
(* variable and the board, stop is TRUE once a nonzero byte was read       *)
(* slip: the scan does not stop at a nonzero byte *)
RECURSIVE BlankLoop_NoBreak(_, _, _, _)
BlankLoop_NoBreak(l, chip, lo, hi) ==
    IF l.address >= hi THEN l
    ELSE IF hi = lo + 1
    THEN LET rd == read_prom_byte(l.b, chip, l.address)
         IN  [b |-> rd.b, address |-> l.address + 1, stop |-> FALSE]
    ELSE LET mid == (lo + hi) \div 2
         IN  BlankLoop_NoBreak(BlankLoop_NoBreak(l, chip, lo, mid), chip, mid, hi)

RECURSIVE BlankLoop(_, _, _, _)
BlankLoop(l, chip, lo, hi) ==
    IF l.stop \/ l.address >= hi THEN l
    ELSE IF hi = lo + 1
    THEN LET rd == read_prom_byte(l.b, chip, l.address)
         IN  IF 0 # rd.value
             THEN [b |-> rd.b, address |-> l.address, stop |-> TRUE]
             ELSE [b |-> rd.b, address |-> l.address + 1, stop |-> FALSE]
    ELSE LET mid == (lo + hi) \div 2
         IN  BlankLoop(BlankLoop(l, chip, lo, mid), chip, mid, hi)

exec_blank_check(b, cmd) ==
    LET l == BlankLoop([b |-> power_on(b), address |-> 0, stop |-> FALSE],
                       cmd.chip, 0, chip_sizes[cmd.chip])
    IN  set_st_ready([Result(l.b) EXCEPT
                        !.out = println(printNumber(l.address, 16))])

print_version(b, cmd) ==
    set_st_ready([Result(b) EXCEPT !.out = println(VERSION)])


----------------------------------------------------------------------------
(* Reading tokens from Serial.  A handler that waits for characters is an  *)
(* action that is not enabled until the characters it reads have arrived.  *)

RECURSIVE wait_first_non_blank(_)
wait_first_non_blank(s) ==
    IF s = <<>> THEN <<>>
    ELSE IF isSpace(Head(s)) THEN wait_first_non_blank(Tail(s)) ELSE s

(* hex <<= 4 on a 32 bit long int, as avr-gcc compiles it (wraps) *)
Shl4(hex) ==
    LET lo == (hex % (2^27)) * 16
    IN  IF (hex \div (2^27)) % 2 = 1 THEN lo - 2^30 - 2^30 ELSE lo

RECURSIVE HexLoop(_, _)
HexLoop(s, hex) ==
    IF s = <<>> THEN [ready |-> FALSE, hex |-> hex, rest |-> s]
    ELSE LET digit == Head(s)
         IN  IF isHexadecimalDigit(digit)
             THEN HexLoop(Tail(s), Shl4(hex) + HexDigitValue(digit))
             ELSE IF ~isSpace(digit)
                  THEN [ready |-> TRUE, hex |-> -1, rest |-> Tail(s)]
                  ELSE [ready |-> TRUE, hex |-> hex, rest |-> Tail(s)]

get_hex(s) == HexLoop(wait_first_non_blank(s), 0)

(* The result of a parsing handler *)
Parsed(b, cmd, s, st) ==
    [b |-> b, out |-> <<>>, state |-> st, existing |-> -1, returned |-> -1,
     cmd |-> cmd, rx |-> s]

get_value(b, cmd, s, next) ==
    LET h == get_hex(s)
    IN  IF h.hex < 0 \/ h.hex > 255
        THEN set_st_error(Parsed(b, cmd, h.rest, ST_ANY))
        ELSE Parsed(b, [cmd EXCEPT !.value = h.hex], h.rest, next)

get_address(b, cmd, s, next) ==
    LET h == get_hex(s)
    IN  IF h.hex < 0 \/ h.hex >= chip_sizes[cmd.chip]
        THEN set_st_error(Parsed(b, cmd, h.rest, ST_ANY))
        ELSE Parsed(b, [cmd EXCEPT !.address = h.hex], h.rest, next)

get_chip(b, cmd, s, next) ==
    LET t == wait_first_non_blank(s)
        chip_c == Head(t)
    IN  IF chip_c # "0" /\ chip_c # "1"
        THEN set_st_error(Parsed(b, cmd, Tail(t), ST_ANY))
        ELSE Parsed(b, [cmd EXCEPT !.chip = HexDigitValue(chip_c)], Tail(t), next)

----------------------------------------------------------------------------
(* State machine table *)

Rule(c, st, fn, nx) == [command |-> c, state |-> st, function |-> fn, next_state |-> nx]

(* slip: the 'r' row for the chip field goes straight to ST_EXEC *)
machine_SkipsAddress == <<
    Rule("*", ST_READY, "get_command", ST_WAIT_CHIP),
    Rule("V", ST_ANY, "print_version", ST_READY),
    Rule("R", ST_WAIT_CHIP, "get_chip", ST_EXEC),
    Rule("R", ST_EXEC, "exec_read_prom", ST_READY),
    Rule("K", ST_WAIT_CHIP, "get_chip", ST_EXEC),
    Rule("K", ST_EXEC, "exec_blank_check", ST_READY),
    Rule("r", ST_WAIT_CHIP, "get_chip", ST_EXEC),
    Rule("r", ST_WAIT_ADDR, "get_address", ST_EXEC),
    Rule("r", ST_EXEC, "exec_read_prom_byte", ST_READY),
    Rule("w", ST_WAIT_CHIP, "get_chip", ST_WAIT_ADDR),
    Rule("w", ST_WAIT_ADDR, "get_address", ST_WAIT_VALUE),
    Rule("w", ST_WAIT_VALUE, "get_value", ST_EXEC),
    Rule("w", ST_EXEC, "exec_write_prom_byte", ST_READY),
    Rule("s", ST_WAIT_CHIP, "get_chip", ST_WAIT_ADDR),
    Rule("s", ST_WAIT_ADDR, "get_address", ST_WAIT_VALUE),
    Rule("s", ST_WAIT_VALUE, "get_value", ST_EXEC),
    Rule("s", ST_EXEC, "exec_simul_write_prom_byte", ST_READY),
    Rule(NUL, ST_ANY, NUL, ST_ANY) >>

machine == <<
    Rule("*", ST_READY, "get_command", ST_WAIT_CHIP),
    Rule("V", ST_ANY, "print_version", ST_READY),
    Rule("R", ST_WAIT_CHIP, "get_chip", ST_EXEC),
    Rule("R", ST_EXEC, "exec_read_prom", ST_READY),
    Rule("K", ST_WAIT_CHIP, "get_chip", ST_EXEC),
    Rule("K", ST_EXEC, "exec_blank_check", ST_READY),
    Rule("r", ST_WAIT_CHIP, "get_chip", ST_WAIT_ADDR),
    Rule("r", ST_WAIT_ADDR, "get_address", ST_EXEC),
    Rule("r", ST_EXEC, "exec_read_prom_byte", ST_READY),
    Rule("w", ST_WAIT_CHIP, "get_chip", ST_WAIT_ADDR),
    Rule("w", ST_WAIT_ADDR, "get_address", ST_WAIT_VALUE),
    Rule("w", ST_WAIT_VALUE, "get_value", ST_EXEC),
    Rule("w", ST_EXEC, "exec_write_prom_byte", ST_READY),
    Rule("s", ST_WAIT_CHIP, "get_chip", ST_WAIT_ADDR),
    Rule("s", ST_WAIT_ADDR, "get_address", ST_WAIT_VALUE),
    Rule("s", ST_WAIT_VALUE, "get_value", ST_EXEC),
    Rule("s", ST_EXEC, "exec_simul_write_prom_byte", ST_READY),
    Rule(NUL, ST_ANY, NUL, ST_ANY) >>

(* get_command: the table scan stops only at an entry whose command is    *)
(* the character read.  For a character no entry has, the scan runs past   *)
(* the end of the table: scan says whether it then meets a matching byte   *)
(* ("match") or never returns ("hang").                                    *)
InTable(c) == \E i \in 1..Len(machine) : machine[i].command = c

(* for ( c = 0; machine[c].command != cmd_data->command; ++c ): the entry  *)
(* the scan stops at, Len(machine) + 1 when it leaves the table            *)
RECURSIVE TableScan(_, _)
TableScan(c, command) ==
    IF c > Len(machine) THEN c
    ELSE IF machine[c].command # command THEN TableScan(c + 1, command) ELSE c

get_command(b, cmd, s, next, scan) ==
    LET t == wait_first_non_blank(s)
        cmd1 == [cmd EXCEPT !.command = Head(t)]
        c == TableScan(1, cmd1.command)
        at == [index |-> c]
    IN  IF c <= Len(machine)
        THEN IF machine[c].command = NUL
             THEN set_st_error(Parsed(b, cmd1, Tail(t), ST_ANY)) @@ at
             ELSE Parsed(b, cmd1, Tail(t), next) @@ at
        ELSE IF scan = "match"
             THEN Parsed(b, cmd1, Tail(t), next) @@ at
             ELSE Parsed(b, cmd1, Tail(t), ST_ANY) @@ at

(* loop(): the first rule that matches the command and the state, or the  *)
(* terminating entry when none does                                        *)
RECURSIVE FindRule(_, _, _)
FindRule(index, cmd, st) ==
    IF machine[index].command = NUL THEN index
    ELSE IF /\ (machine[index].command = "*" \/ machine[index].command = cmd.command)
            /\ (machine[index].state = st \/ machine[index].state = ST_ANY)
         THEN index
         ELSE FindRule(index + 1, cmd, st)

----------------------------------------------------------------------------
(* Start-up *)

ResetPins == [VCC_EN |-> LOW, VCC_10V5 |-> LOW, S1 |-> LOW,
              PORTA |-> 0, PORTC |-> 0, PORTL |-> 0]

setup(b) ==
    output_disable(
        output_disable(ground_pins(disable_10V5(power_off(b)), 0), CHIP_256X8),
        CHIP_512X8)

programmer_init(b) ==
    set_st_ready(Parsed(b, [command |-> NUL, chip |-> 0, address |-> 0, value |-> 0],
                        <<>>, ST_ANY))


----------------------------------------------------------------------------
(* The host and the chips of the model *)

Line(s) == s \o <<"\n">>

Requests == {
    <<"V">>,
    Line(<<"R", " ", "0">>),
    Line(<<"K", " ", "0">>),
    Line(<<"K", " ", "1">>),
    Line(<<"r", " ", "0", " ", "6", "0">>),
    Line(<<"r", " ", "1", " ", "1", "d", "f", " ", "1">>),
    Line(<<"w", " ", "0", " ", "0", "6", "0", " ", "0", "3">>),
    Line(<<"w", " ", "0", " ", "6", "0", " ", "1">>),
    Line(<<"w", " ", "1", " ", "1", "d", "f", " ", "F", "F">>),
    Line(<<"s", " ", "0", " ", "6", "0", " ", "1">>),
    Line(<<"s", " ", "1", " ", "1", "d", "f", " ", "3">>),
    Line(<<"R", " ", "2">>),
    Line(<<"r", " ", "0", " ", "1", "0", "0">>),
    Line(<<"w", " ", "0", " ", "6", "0", " ", "1", "g">>),
    Line(<<"w", " ", "0", " ", "6", "0">>),
    Line(<<"r", " ", "0", " ", "1", "0", "0", "0", "0", "0", "0", "6", "0">>),
    Line(<<"x">>),
    Line(<<"R", " ", "2", " ", "V">>),
    Line(<<"w", " ", "0", " ", "z", "K">>),
    Line(<<"w", " ", "0", " ", "1", "0", "0", " ", "1">>) }

BlankChip == [a \in {} |-> 0]

Images == {
    [c \in 0..(NUM_CHIPS - 1) |-> BlankChip],
    [c \in 0..(NUM_CHIPS - 1) |->
        IF c = CHIP_256X8
        THEN (96 :> 2) @@ (255 :> 128)
        ELSE (479 :> 240) @@ (511 :> 1)] }

(* the host program is not part of the run *)
NoHost == [pc |-> "idle"]

NoCall == [fn |-> NUL, state |-> ST_ANY, out |-> <<>>, before |-> -1,
           existing |-> -1, returned |-> -1, token |-> <<>>, index |-> -1]

Init ==
    \E image \in Images :
        LET r == programmer_init(setup([hw |-> ResetPins, log |-> <<>>,
                                        prom |-> image]))
        IN  /\ state = r.state
            /\ cmd_data = r.cmd
            /\ rx = <<>>
            /\ tx = r.out
            /\ prom = r.b.prom
            /\ hw = r.b.hw
            /\ log = r.b.log
            /\ last = NoCall
            /\ parsed = <<>>
            /\ sent = 0
            /\ req = <<>>
            /\ lines = 0
            /\ status = <<>>
            /\ mark = 0
            /\ hung = FALSE
            /\ host = NoHost

----------------------------------------------------------------------------
(* The actions *)

Board == [hw |-> hw, log |-> <<>>, prom |-> prom]

(* loop(): the rule the iteration selects *)
Selected == machine[FindRule(1, cmd_data, state)]

Runs(fn) == ~hung /\ Selected.function = fn

CellHandlers == {"exec_read_prom_byte", "exec_write_prom_byte",
                 "exec_simul_write_prom_byte"}

(* a status line printed by a handler *)
IsStatus(e) == e[1] = "Serial"

(* the effects every handler has on the variables; last.before is the     *)
(* content of the addressed cell when the handler was entered, last.token  *)
(* the characters a parsing handler took from Serial, last.index the       *)
(* table entry at which get_command's scan stopped                         *)
Finish(fn, r) ==
    /\ state' = r.state
    /\ tx' = tx \o r.out
    /\ prom' = r.b.prom
    /\ hw' = r.b.hw
    /\ log' = r.b.log
    /\ status' = status \o [i \in 1..Len(SelectSeq(r.b.log, IsStatus)) |->
                                SelectSeq(r.b.log, IsStatus)[i][2]]
    /\ last' = [fn |-> fn, state |-> state, out |-> r.out,
                before |-> IF fn \in CellHandlers
                           THEN Cell(prom, cmd_data.chip, cmd_data.address)
                           ELSE -1,
                existing |-> r.existing, returned |-> r.returned,
                token |-> IF "rx" \in DOMAIN r
                          THEN SubSeq(rx, 1, Len(rx) - Len(r.rx)) ELSE <<>>,
                index |-> IF "index" \in DOMAIN r THEN r.index ELSE -1]
    /\ UNCHANGED host

(* The host writes a request line.  It writes when the firmware has read  *)
(* all it was sent (the firmware reads the stream token by token, so what  *)
(* it does depends on the order of the characters only), and it has read   *)
(* what the firmware printed so far.                                       *)
HostSend ==
    /\ sent < MaxRequests
    /\ rx = <<>>
    /\ \E line \in Requests :
          /\ rx' = rx \o line
          /\ req' = line
          /\ lines' = IF line[Len(line)] = "\n" THEN lines + 1 ELSE lines
    /\ tx' = <<>>
    /\ sent' = sent + 1
    /\ mark' = Len(status)
    /\ UNCHANGED <<state, cmd_data, prom, hw, log, last, parsed, status, hung,
                   host>>

(* loop(): a white space character at the head of the input is dropped *)
SkipSpace ==
    /\ ~hung
    /\ rx # <<>>
    /\ isSpace(Head(rx))
    /\ rx' = Tail(rx)
    /\ UNCHANGED <<state, cmd_data, tx, prom, hw, log, last, parsed, sent, req,
                   lines, status, mark, hung, host>>

GetCommand ==
    /\ Runs("get_command")
    /\ wait_first_non_blank(rx) # <<>>
    /\ \E scan \in {"match", "hang"} :
          LET r == get_command(Board, cmd_data, rx, Selected.next_state, scan)
          IN  /\ Finish("get_command", r)
              /\ cmd_data' = r.cmd
              /\ rx' = r.rx
              /\ hung' = (r.state = ST_ANY)
    /\ parsed' = <<>>
    /\ UNCHANGED <<sent, req, lines, mark>>

GetChip ==
    /\ Runs("get_chip")
    /\ wait_first_non_blank(rx) # <<>>
    /\ LET r == get_chip(Board, cmd_data, rx, Selected.next_state)
       IN  /\ Finish("get_chip", r)
           /\ cmd_data' = r.cmd
           /\ rx' = r.rx
           /\ parsed' = IF r.state = Selected.next_state
                        THEN Append(parsed, "chip") ELSE parsed
    /\ UNCHANGED <<sent, req, lines, mark, hung>>

GetAddress ==
    /\ Runs("get_address")
    /\ get_hex(rx).ready
    /\ LET r == get_address(Board, cmd_data, rx, Selected.next_state)
       IN  /\ Finish("get_address", r)
           /\ cmd_data' = r.cmd
           /\ rx' = r.rx
           /\ parsed' = IF r.state = Selected.next_state
                        THEN Append(parsed, "address") ELSE parsed
    /\ UNCHANGED <<sent, req, lines, mark, hung>>

GetValue ==
    /\ Runs("get_value")
    /\ get_hex(rx).ready
    /\ LET r == get_value(Board, cmd_data, rx, Selected.next_state)
       IN  /\ Finish("get_value", r)
           /\ cmd_data' = r.cmd
           /\ rx' = r.rx
           /\ parsed' = IF r.state = Selected.next_state
                        THEN Append(parsed, "value") ELSE parsed
    /\ UNCHANGED <<sent, req, lines, mark, hung>>

PrintVersion ==
    /\ Runs("print_version")
    /\ Finish("print_version", print_version(Board, cmd_data))
    /\ UNCHANGED <<cmd_data, rx, parsed, sent, req, lines, mark, hung>>

ExecReadProm ==
    /\ Runs("exec_read_prom")
    /\ Finish("exec_read_prom", exec_read_prom(Board, cmd_data))
    /\ UNCHANGED <<cmd_data, rx, parsed, sent, req, lines, mark, hung>>

ExecBlankCheck ==
    /\ Runs("exec_blank_check")
    /\ Finish("exec_blank_check", exec_blank_check(Board, cmd_data))
    /\ UNCHANGED <<cmd_data, rx, parsed, sent, req, lines, mark, hung>>

ExecReadPromByte ==
    /\ Runs("exec_read_prom_byte")
    /\ Finish("exec_read_prom_byte", exec_read_prom_byte(Board, cmd_data))
    /\ UNCHANGED <<cmd_data, rx, parsed, sent, req, lines, mark, hung>>

ExecWritePromByte ==
    /\ Runs("exec_write_prom_byte")
    /\ \E fail \in 0..8 :
          Finish("exec_write_prom_byte", exec_write_prom_byte(Board, cmd_data, fail))
    /\ UNCHANGED <<cmd_data, rx, parsed, sent, req, lines, mark, hung>>

ExecSimulWritePromByte ==
    /\ Runs("exec_simul_write_prom_byte")
    /\ Finish("exec_simul_write_prom_byte",
              exec_simul_write_prom_byte(Board, cmd_data))
    /\ UNCHANGED <<cmd_data, rx, parsed, sent, req, lines, mark, hung>>

(* loop(): no rule matches the command in this state *)
NoRule ==
    /\ Runs(NUL)
    /\ Finish("set_st_error", set_st_error(Parsed(Board, cmd_data, rx, ST_ANY)))
    /\ UNCHANGED <<cmd_data, rx, parsed, sent, req, lines, mark, hung>>

Next ==
    \/ HostSend
    \/ SkipSpace
    \/ GetCommand
    \/ GetChip
    \/ GetAddress
    \/ GetValue
    \/ PrintVersion
    \/ ExecReadProm
    \/ ExecBlankCheck
    \/ ExecReadPromByte
    \/ ExecWritePromByte
    \/ ExecSimulWritePromByte
    \/ NoRule

Spec == Init /\ [][Next]_vars

TypeOK ==
    /\ state \in {ST_READY, ST_WAIT_CHIP, ST_WAIT_ADDR, ST_WAIT_VALUE, ST_EXEC, ST_ANY}
    /\ cmd_data.chip \in 0..(NUM_CHIPS - 1)
    /\ cmd_data.address \in 0..(chip_sizes[CHIP_512X8] - 1)
    /\ cmd_data.value \in Byte
    /\ \A c \in 0..(NUM_CHIPS - 1) :
          /\ DOMAIN prom[c] \subseteq 0..(chip_sizes[c] - 1)
          /\ \A a \in DOMAIN prom[c] : prom[c][a] \in 1..255


----------------------------------------------------------------------------
(* The burn algorithm on every existing byte and every target byte: the   *)
(* interpreter has parsed a write or a simulate request for one cell.      *)

BurnCell == [chip |-> CHIP_256X8, address |-> 96]

InitBurn ==
    \E e \in Byte, t \in Byte, c \in {"w", "s"} :
        LET image == Blown([k \in 0..(NUM_CHIPS - 1) |-> BlankChip],
                           BurnCell.chip, BurnCell.address, e)
            r == programmer_init(setup([hw |-> ResetPins, log |-> <<>>,
                                        prom |-> image]))
        IN  /\ state = ST_EXEC
            /\ cmd_data = [command |-> c, chip |-> BurnCell.chip,
                           address |-> BurnCell.address, value |-> t]
            /\ rx = <<>>
            /\ tx = r.out
            /\ prom = r.b.prom
            /\ hw = r.b.hw
            /\ log = <<>>
            /\ last = [NoCall EXCEPT !.fn = "get_value", !.state = ST_WAIT_VALUE]
            /\ parsed = <<"chip", "address", "value">>
            /\ sent = 1
            /\ req = Line(<<c, " ", "0", " ", "6", "0", " ">> \o printNumber(t, 16))
            /\ lines = 1
            /\ status = <<>>
            /\ mark = 0
            /\ hung = FALSE
            /\ host = NoHost

NextBurn ==
    \/ ExecWritePromByte
    \/ ExecSimulWritePromByte

SpecBurn == InitBurn /\ [][NextBurn]_vars

----------------------------------------------------------------------------
(* The address bus on every cell of both chips: the interpreter has parsed *)
(* a read request for the cell; pin PC7 is as an earlier command left it.  *)

InitAddress ==
    \E c \in 0..(NUM_CHIPS - 1), pc7 \in {LOW, HIGH}, image \in Images :
        \E a \in 0..(chip_sizes[c] - 1) :
            LET r == programmer_init(setup([hw |-> ResetPins, log |-> <<>>,
                                            prom |-> image]))
            IN  /\ state = ST_EXEC
                /\ cmd_data = [command |-> "r", chip |-> c, address |-> a,
                               value |-> 0]
                /\ rx = <<>>
                /\ tx = r.out
                /\ prom = r.b.prom
                /\ hw = [r.b.hw EXCEPT !.PORTC = (@ % 128) + 128 * pc7]
                /\ log = <<>>
                /\ last = [NoCall EXCEPT !.fn = "get_address",
                                         !.state = ST_WAIT_ADDR]
                /\ parsed = <<"chip", "address">>
                /\ sent = 1
                /\ req = Line(<<"r", " ">> \o printNumber(c, 16) \o <<" ">>
                                \o printNumber(a, 16))
                /\ lines = 1
                /\ status = <<>>
                /\ mark = 0
                /\ hung = FALSE
                /\ host = [pc |-> "idle", PORTC |-> (r.b.hw.PORTC % 128) + 128 * pc7]

NextAddress == ExecReadPromByte

SpecAddress == InitAddress /\ [][NextAddress]_vars

----------------------------------------------------------------------------
(* What the host reads.  sscanf( rec_buf, "%hhx\r\n%c\r\n", ... ) and its   *)
(* "%hx" form: white space is skipped, the hexadecimal digits are          *)
(* converted into an integer of the given width, white space is skipped,   *)
(* one character is taken.  n counts the conversions made.                 *)

RECURSIVE ScanHex(_, _, _)
ScanHex(s, acc, digits) ==
    IF s # <<>> /\ isHexadecimalDigit(Head(s))
    THEN ScanHex(Tail(s), acc * 16 + HexDigitValue(Head(s)), digits + 1)
    ELSE [rest |-> s, value |-> acc, digits |-> digits]

sscanf(rec_buf, width) ==
    LET h == ScanHex(wait_first_non_blank(rec_buf), 0, 0)
        t == wait_first_non_blank(h.rest)
    IN  IF h.digits = 0 THEN [n |-> 0, value |-> -1, status |-> NUL]
        ELSE IF t = <<>> THEN [n |-> 1, value |-> h.value % (2^width), status |-> NUL]
        ELSE [n |-> 2, value |-> h.value % (2^width), status |-> Head(t)]

----------------------------------------------------------------------------
(* The host program.  main() opens the port, calls command_init and then   *)
(* the function of the command line.  The program blocks in serial_write   *)
(* and serial_read only, so each action below runs it from one of these    *)
(* calls to the next; host.pc names the call it is about to make.          *)

SUCCESS == "SUCCESS"
FAILURE == "FAILURE"

REC_BUF_SIZE == 4096

(* for ( tries = 0; tries < 5; ++tries ) of command_init *)
INIT_TRIES == 5
(* for ( tries = 0; tries < 5; ++tries ) of command_execute *)
EXEC_TRIES == 5
(* for ( tries = 0; tries < 1000; ++tries ) of command_read *)
READ_TRIES == 1000
(* if ( returned == 12 ) *)
VERSION_BYTES == 12
(* the address and the count main() passes when the option is not given *)
NoOption == 65535

Min(a, b) == IF a < b THEN a ELSE b

(* sprintf "%x": lower case, no padding *)
RECURSIVE sprintf_x(_)
sprintf_x(n) ==
    IF n < 16 THEN <<LowerHex[n + 1]>>
    ELSE Append(sprintf_x(n \div 16), LowerHex[(n % 16) + 1])

(* sprintf( cmd_buf, "%c %x %x 1\n", command, chip, address ) *)
command_set_read(command, chip, address, data) ==
    <<command, " ">> \o sprintf_x(chip) \o <<" ">> \o sprintf_x(address)
        \o <<" ", "1", "\n">>

(* sprintf( cmd_buf, "%c %x %x %x\n", command, chip, address, *data ) *)
command_set_write(command, chip, address, data) ==
    <<command, " ">> \o sprintf_x(chip) \o <<" ">> \o sprintf_x(address)
        \o <<" ">> \o sprintf_x(data) \o <<"\n">>

(* serial_read: poll() waits up to 2000 ms.  With input pending, read()    *)
(* returns the characters that have arrived so far, at most bufsiz of      *)
(* them: all that are pending on the link, or (whole = FALSE) any part of  *)
(* them.  When the wait times out, *returned is 0 and the buffer is empty. *)
(* poll() or read() can fail.  Every handler of the firmware ends within   *)
(* milliseconds, so the wait times out (silent) only when the programmer   *)
(* has nothing left to do with what it received.                           *)
serial_read(link, bufsiz, silent, whole) ==
    {[status |-> FAILURE, returned |-> 0, buffer |-> <<>>]}
    \cup IF link = <<>>
         THEN IF silent
              THEN {[status |-> SUCCESS, returned |-> 0, buffer |-> <<>>]}
              ELSE {}
         ELSE {[status |-> SUCCESS, returned |-> n, buffer |-> SubSeq(link, 1, n)] :
                  n \in (IF whole THEN Min(Len(link), bufsiz) ELSE 1)
                            ..Min(Len(link), bufsiz)}

(* sscanf( rec_buf, "%*[V]%2hhd%2hhd%2hhd\r\n%c\r\n", ... ) *)
isDigit(c) == \E i \in 1..10 : UpperHex[i] = c

(* %*[V]: the characters of the set at the head of the input *)
RECURSIVE ScanSet(_, _)
ScanSet(s, set) ==
    IF s # <<>> /\ Head(s) \in set THEN ScanSet(Tail(s), set) ELSE s

RECURSIVE ScanDigits(_, _, _, _)
ScanDigits(s, acc, digits, width) ==
    IF s # <<>> /\ isDigit(Head(s)) /\ digits < width
    THEN ScanDigits(Tail(s), acc * 10 + HexDigitValue(Head(s)), digits + 1, width)
    ELSE [rest |-> s, value |-> acc, digits |-> digits]

(* %2hhd: white space is skipped, a sign counts in the width, the value   *)
(* is stored in a byte                                                     *)
ScanDec(s, width) ==
    LET t == wait_first_non_blank(s)
        signed == t # <<>> /\ Head(t) \in {"+", "-"}
        d == IF signed THEN ScanDigits(Tail(t), 0, 0, width - 1)
             ELSE ScanDigits(t, 0, 0, width)
    IN  [ok |-> d.digits > 0, rest |-> d.rest,
         value |-> IF signed /\ Head(t) = "-" THEN (256 - d.value) % 256
                   ELSE d.value % 256]

sscanf_version(rec_buf) ==
    LET v == ScanSet(rec_buf, {"V"})
        d1 == ScanDec(v, 2)
        d2 == ScanDec(d1.rest, 2)
        d3 == ScanDec(d2.rest, 2)
        t == wait_first_non_blank(d3.rest)
    IN  IF v = rec_buf \/ ~d1.ok THEN [n |-> 0, status |-> NUL]
        ELSE IF ~d2.ok THEN [n |-> 1, status |-> NUL]
        ELSE IF ~d3.ok THEN [n |-> 2, status |-> NUL]
        ELSE IF t = <<>> THEN [n |-> 3, status |-> NUL]
        ELSE [n |-> 4, status |-> Head(t)]

(* The command lines of the model: the function, the chip, the memory     *)
(* image read from the input file (its blocks and rw_buf), and the line    *)
(* standard input holds (NUL at end of input).                             *)
Block(start, count) == [start |-> start, count |-> count]

----------------------------------------------------------------------------
(* The file formats of the host: files.c, ihex.c, binfile.c.  A text file  *)
(* is the sequence of its characters.  rw_buf, the buffer the readers      *)
(* fill, is static: a cell that was never stored is 0; the model keeps the *)
(* cells that were stored.                                                 *)

RW_BUF_SIZE == 4096
LINE_BUF_LEN == 1024
INTEL_WRITE_BYTES_PER_LINE == 32
UINT8 == 2
UINT16 == 4

(* the cell of a buffer *)
At(buffer, a) == IF a \in DOMAIN buffer THEN buffer[a] ELSE 0

(* the code of a hexadecimal digit in the character set *)
Code(c) ==
    IF isDigit(c) THEN 48 + HexDigitValue(c)
    ELSE IF \E i \in 11..16 : UpperHex[i] = c THEN 55 + HexDigitValue(c)
    ELSE 87 + HexDigitValue(c)

(* hexvalue: toupper() decides the branch, the digit itself is subtracted; *)
(* the value is a uint8_t                                                  *)
hexvalue(digit) ==
    IF isDigit(digit) THEN (Code(digit) - 48) % 256
    ELSE (Code(digit) - 65 + 10) % 256

(* get_hexnum: -1 when s is shorter than len or holds another character;  *)
(* each digit gives the four bits ( hexvalue << shift ) & ( 0xF << shift ) *)
RECURSIVE HexNumLoop(_, _, _, _)
HexNumLoop(len, s, pos, result) ==
    IF pos >= len THEN result
    ELSE IF ~isHexadecimalDigit(s[pos + 1]) THEN -1
    ELSE HexNumLoop(len, s, pos + 1,
                    result + (hexvalue(s[pos + 1]) % 16) * 16^(len - 1 - pos))

get_hexnum(len, s) ==
    IF Len(s) < len THEN -1 ELSE HexNumLoop(len, s, 0, 0)

(* get_hexword: four hexadecimal digits, -1 for EINVAL *)
get_hexword(s) == get_hexnum(UINT16, s)

(* get_byte, get_word: the number at buffer[index] and the index after it *)
get_byte(buffer, index) ==
    LET Got(result) ==
            IF result < 0 THEN [status |-> FAILURE, index |-> index, value |-> 0]
            ELSE [status |-> SUCCESS, index |-> index + 2, value |-> result]
    IN  Got(get_hexnum(UINT8, SubSeq(buffer, index + 1, Len(buffer))))

get_word(buffer, index) ==
    LET Got(result) ==
            IF result < 0 THEN [status |-> FAILURE, index |-> index, value |-> 0]
            ELSE [status |-> SUCCESS, index |-> index + 4, value |-> result]
    IN  Got(get_hexword(SubSeq(buffer, index + 1, Len(buffer))))

(* fgets( line_buf, sizeof( line_buf ), file ): the characters up to and  *)
(* with the next new line, at most sizeof( line_buf ) - 1 of them          *)
RECURSIVE LineEnd(_, _)
LineEnd(text, n) ==
    IF n >= Len(text) \/ n >= LINE_BUF_LEN - 1 \/ (n > 0 /\ text[n] = "\n")
    THEN n
    ELSE LineEnd(text, n + 1)

fgets(text) ==
    LET n == LineEnd(text, 0)
    IN  [line |-> SubSeq(text, 1, n), rest |-> SubSeq(text, n + 1, Len(text))]

(* hexfile_t hex = { 0 } and the fields ihex_read sets.  blocks is the    *)
(* list from its head: a new block is put in front.  beyond is the memory  *)
(* after the buffer.                                                       *)
hexfile(size) ==
    [start_char |-> ":", buffer |-> <<>>, buffer_size |-> size,
     current_addr |-> -1, lines |-> 0, checksum |-> 0, line_buffer |-> <<>>,
     line_index |-> 0, blocks |-> <<>>, complete |-> FALSE,
     beyond |-> <<>>]

EndRecord == <<":", "0", "0", "0", "0", "0", "0", "0", "1", "F", "F">>

(* What the C standard leaves open in ihex.c.                              *)
(* junk: ihex_read_record stores the check sum of the line, through a      *)
(* pointer to uint8_t, into one byte of its uninitialized uint16_t         *)
(* checksum; the other byte is whatever the stack holds, at each call.     *)
(* slack: a new block is malloc( sizeof( sizeof( mem_block_t ) ) ), the    *)
(* size of a size_t, and mem_block_t is larger; the store to               *)
(* newblock->next lies in the chunk when the allocator rounds the request  *)
(* up far enough (slack), else it damages the heap and the process is      *)
(* ended.                                                                  *)
(* beyond: hex->buffer[hex->current_addr++] is stored without a look at    *)
(* buffer_size; a store at buffer_size or above lands in what follows      *)
(* rw_buf in memory and is no cell of the image.                           *)
ABORTED == "ABORTED"
Indeterminate == {0, 165}

(* slip: only the first record opens a block *)
NewBlock_FirstOnly(hex, load_address) == hex.blocks = <<>>

(* if ( load_address != hex->current_addr ) *)
NewBlock(hex, load_address) == load_address # hex.current_addr

(* hex->checksum = line_bytes + ( ( load_address >> 8 ) & 0xFF )          *)
(*                            + ( load_address & 0xFF )                    *)
SumOfHeader(line_bytes, load_address) ==
    line_bytes + ((load_address \div 256) % 256) + (load_address % 256)

(* the loop over the data bytes of a record *)
RECURSIVE DataLoop(_, _, _)
DataLoop(hex, line_bytes, nbytes) ==
    LET Store(r, a) ==
            IF r.status = FAILURE
            THEN [status |-> FAILURE, hex |-> [hex EXCEPT !.line_index = r.index]]
            ELSE DataLoop(
                    [hex EXCEPT
                        !.line_index = r.index,
                        !.buffer = IF a < hex.buffer_size
                                   THEN (a :> r.value) @@ @ ELSE @,
                        !.beyond = IF a < hex.buffer_size
                                   THEN @ ELSE (a :> r.value) @@ @,
                        !.current_addr = a + 1,
                        !.blocks = [@ EXCEPT ![1].count = (@ + 1) % 65536],
                        !.checksum = (@ + r.value) % 65536],
                    line_bytes, nbytes + 1)
    IN  IF nbytes >= line_bytes THEN [status |-> SUCCESS, hex |-> hex]
        ELSE Store(get_byte(hex.line_buffer, hex.line_index), hex.current_addr)

(* if ( checksum != (uint8_t)(~hex->checksum + 1 ) ) *)
SumMatches(checksum, sum) == checksum = (65536 - sum) % 256

(* ihex_read_record on hex->line_buffer; message is what it prints: the   *)
(* text and the line number                                                *)
ihex_read_record(h, junk, slack) ==
    LET hex == [h EXCEPT !.lines = (@ + 1) % 65536, !.line_index = 1]
        line == h.line_buffer
        Fail(g, text) == [status |-> FAILURE, hex |-> g,
                          message |-> <<text, (h.lines + 1) % 65536>>]
        (* the check sum after the data *)
        Checked(data, sum) ==
            IF sum.status = FAILURE
            THEN Fail(data.hex, "can't get checksum")
            ELSE IF ~SumMatches(junk * 256 + sum.value, data.hex.checksum)
            THEN Fail([data.hex EXCEPT !.line_index = sum.index], "bad checksum")
            ELSE [status |-> SUCCESS,
                  hex |-> [data.hex EXCEPT !.line_index = sum.index],
                  message |-> <<>>]
        (* after the loop over the data bytes *)
        Stored(data) ==
            IF data.status = FAILURE
            THEN Fail(data.hex, "Invalid byte")
            ELSE Checked(data, get_byte(line, data.hex.line_index))
        (* the new block, the check sum of the header, the data bytes *)
        Opened(opened, line_bytes, new) ==
            IF new /\ ~slack
            THEN [status |-> ABORTED, hex |-> opened, message |-> <<>>]
            ELSE Stored(DataLoop(opened, line_bytes, 0))
        (* the record type *)
        Typed(line_bytes, load_address, typ) ==
            IF typ.status = FAILURE \/ typ.value # 0
            THEN Fail([hex EXCEPT !.line_index = typ.index],
                      "Invalid or unsupported record type")
            ELSE Opened([hex EXCEPT
                            !.line_index = typ.index,
                            !.blocks = IF NewBlock(hex, load_address)
                                       THEN <<Block(load_address, 0)>> \o @
                                       ELSE @,
                            !.current_addr = load_address,
                            !.checksum = SumOfHeader(line_bytes, load_address)],
                        line_bytes, NewBlock(hex, load_address))
        (* the load address *)
        Addressed(line_bytes, adr) ==
            IF adr.status = FAILURE \/ adr.value >= hex.buffer_size
            THEN Fail([hex EXCEPT !.line_index = adr.index], "Invalid load address")
            ELSE Typed(line_bytes, adr.value, get_byte(line, adr.index))
        (* the register length, the end record *)
        Sized(len) ==
            IF len.status = FAILURE
            THEN Fail(hex, "Invalid register length")
            ELSE IF Len(line) < 11 + 2 * len.value
            THEN Fail([hex EXCEPT !.line_index = len.index], "line is too short")
            ELSE IF len.value = 0
            THEN IF SubSeq(line, 1, 11) = EndRecord
                 THEN [status |-> SUCCESS,
                       hex |-> [hex EXCEPT !.line_index = len.index,
                                           !.complete = TRUE],
                       message |-> <<>>]
                 ELSE [status |-> FAILURE,
                       hex |-> [hex EXCEPT !.line_index = len.index],
                       message |-> <<>>]
            ELSE Addressed(len.value, get_word(line, len.index))
    IN  IF hex.start_char # line[1]
        THEN Fail(hex, "Malformed hex file")
        ELSE Sized(get_byte(line, 1))

(* files_free_blocks: every block of the list is freed *)
files_free_blocks(blocks) == <<>>

(* ihex_read: the loop over the lines fgets returns *)
RECURSIVE ReadLoop(_, _, _, _)
ReadLoop(hex, text, env, messages) ==
    LET Printed(r) == IF r.message = <<>> THEN messages
                      ELSE Append(messages, r.message)
        Fetched(l, r) ==
            IF r.status = ABORTED
            THEN [status |-> ABORTED, hex |-> r.hex, messages |-> Printed(r)]
            ELSE IF r.status = FAILURE
            THEN [status |-> FAILURE,
                  hex |-> [r.hex EXCEPT !.blocks = files_free_blocks(@)],
                  messages |-> Printed(r)]
            ELSE ReadLoop(r.hex, l.rest, env, Printed(r))
        Got(l) ==
            Fetched(l, ihex_read_record([hex EXCEPT !.line_buffer = l.line],
                                        env.junk[(hex.lines % Len(env.junk)) + 1],
                                        env.slack))
    IN  IF text = <<>>
        THEN [status |-> SUCCESS, hex |-> hex, messages |-> messages]
        ELSE Got(fgets(text))

(* ihex_read( filename, data, size, blocks ).  file.opens: fopen finds    *)
(* the file; file.text: the characters fgets can read; file.eof: they end  *)
(* at the end of the file and not at a read error.  The result has the     *)
(* status returned, the list stored in *blocks, the buffer data and what   *)
(* was printed.                                                            *)
ihex_read(file, size, env) ==
    LET Returned(r, unexpected) ==
            [status |-> IF unexpected THEN FAILURE ELSE r.status,
             blocks |-> r.hex.blocks,
             data |-> r.hex.buffer,
             beyond |-> r.hex.beyond,
             messages |-> IF unexpected
                          THEN Append(r.messages, <<"Unexpected end of hex file", 0>>)
                          ELSE r.messages,
             lines |-> r.hex.lines]
        Looped(r) ==
            Returned(r, r.status = SUCCESS /\ (~file.eof \/ ~r.hex.complete))
    IN  IF ~file.opens
        THEN [status |-> FAILURE, blocks |-> <<>>, data |-> <<>>, beyond |-> <<>>,
              messages |-> <<<<"Error opening file", 0>>>>, lines |-> 0]
        ELSE Looped(ReadLoop(hexfile(size), file.text, env, <<>>))

(* fprintf "%2.2X", "%4.4X": upper case, at least width digits *)
RECURSIVE sprintf_X(_, _)
sprintf_X(n, width) ==
    IF width <= 1 /\ n < 16 THEN <<UpperHex[n + 1]>>
    ELSE Append(sprintf_X(n \div 16, width - 1), UpperHex[(n % 16) + 1])

(* ihex_write: the record that starts at byte_num, without its check sum: *)
(* the bytes are added to checksum, a uint16_t                             *)
RECURSIVE RecordBytes(_, _, _, _)
RecordBytes(data, byte_num, stop, acc) ==
    IF byte_num >= stop THEN acc
    ELSE RecordBytes(data, byte_num + 1, stop,
                     [text |-> acc.text \o sprintf_X(At(data, byte_num), 2),
                      checksum |-> (acc.checksum + At(data, byte_num)) % 65536])

(* slip: the check sum starts from 0 and not from the header *)
RecordLine_DataSum(data, size, base_addr, byte_num) ==
    LET bytes_in_line == Min(size - byte_num, INTEL_WRITE_BYTES_PER_LINE) % 256
        address == base_addr + byte_num
        r == RecordBytes(data, byte_num,
                         Min(size, byte_num + INTEL_WRITE_BYTES_PER_LINE),
                         [text |-> <<":">> \o sprintf_X(bytes_in_line, 2)
                                      \o sprintf_X(address % 65536, 4)
                                      \o <<"0", "0">>,
                          checksum |-> 0])
    IN  r.text \o sprintf_X((65536 - r.checksum) % 256, 2) \o <<"\n">>

(* ihex_write: the record that is started when byte_num is a multiple of  *)
(* max_bytes_per_line, with the check sum printed when the next record is  *)
(* started or after the loop                                               *)
RecordLine(data, size, base_addr, byte_num) ==
    LET bytes_in_line == Min(size - byte_num, INTEL_WRITE_BYTES_PER_LINE) % 256
        address == base_addr + byte_num
        r == RecordBytes(data, byte_num,
                         Min(size, byte_num + INTEL_WRITE_BYTES_PER_LINE),
                         [text |-> <<":">> \o sprintf_X(bytes_in_line, 2)
                                      \o sprintf_X(address % 65536, 4)
                                      \o <<"0", "0">>,
                          checksum |-> (bytes_in_line + ((address \div 256) % 256)
                                        + (address % 256)) % 65536])
    IN  r.text \o sprintf_X((65536 - r.checksum) % 256, 2) \o <<"\n">>

(* ihex_write: the loop while ( byte_num < size ), here over the records  *)
(* from number lo to number hi                                             *)
RECURSIVE WriteLoop(_, _, _, _, _)
WriteLoop(data, size, base_addr, lo, hi) ==
    IF lo > hi THEN <<>>
    ELSE IF lo = hi
    THEN RecordLine(data, size, base_addr, lo * INTEL_WRITE_BYTES_PER_LINE)
    ELSE LET mid == (lo + hi) \div 2
         IN  WriteLoop(data, size, base_addr, lo, mid)
                \o WriteLoop(data, size, base_addr, mid + 1, hi)

(* ihex_write( filename, data, size, base_addr ): the file written, when  *)
(* fopen opens it (ok).  With size 0 the loop starts no record and the     *)
(* check sum printed after it is that of nothing.                          *)
ihex_write(data, size, base_addr, ok) ==
    IF ~ok THEN [status |-> FAILURE, text |-> <<>>]
    ELSE [status |-> SUCCESS,
          text |-> (IF size = 0 THEN sprintf_X(0, 2) \o <<"\n">>
                    ELSE WriteLoop(data, size, base_addr, 0,
                                   (size - 1) \div INTEL_WRITE_BYTES_PER_LINE))
                      \o EndRecord \o <<"\n">>]

(* A binary file: its size, the bytes at its head and the byte that fills *)
(* the rest                                                                *)
ByteAt(file, i) == IF i < Len(file.head) THEN file.head[i + 1] ELSE file.fill

(* slip: the size of the file is not compared with the buffer *)
bin_read_AnySize(file, size) ==
    LET count == file.size % 65536
    IN  IF ~file.opens \/ count = 0
        THEN [status |-> FAILURE, blocks |-> <<>>, data |-> <<>>,
              messages |-> <<<<"Invalid file size", 0>>>>]
        ELSE [status |-> SUCCESS, blocks |-> <<Block(0, count)>>,
              data |-> [i \in 0..(count - 1) |-> ByteAt(file, i)],
              messages |-> <<>>]

(* bin_read( filename, data, size, blocks ): b->count, a uint16_t, takes  *)
(* ftell( file ); one block from 0 with the bytes of the file              *)
bin_read(file, size) ==
    LET count == file.size % 65536
    IN  IF ~file.opens
        THEN [status |-> FAILURE, blocks |-> <<>>, data |-> <<>>,
              messages |-> <<<<"Error opening file", 0>>>>]
        ELSE IF count > size \/ count = 0
        THEN [status |-> FAILURE, blocks |-> <<>>, data |-> <<>>,
              messages |-> <<<<"Invalid file size", 0>>>>]
        ELSE [status |-> SUCCESS, blocks |-> <<Block(0, count)>>,
              data |-> [i \in 0..(count - 1) |-> ByteAt(file, i)],
              messages |-> <<>>]

(* The files of the model.  An Intel HEX file is made of these lines.     *)
(* :01006000029D: one byte, 02, at 0x060 *)
Data60 ==
    <<":", "0", "1", "0", "0", "6", "0", "0", "0", "0", "2", "9", "D">>

(* :01006100009E: one byte, 00, at 0x061: the address after Data60 *)
Data61 ==
    <<":", "0", "1", "0", "0", "6", "1", "0", "0", "0", "0", "9", "E">>

(* :0200FF0080007F: two bytes, 80 00, at 0x0FF *)
DataFF ==
    <<":", "0", "2", "0", "0", "F", "F", "0", "0", "8", "0", "0", "0",
    "7", "F">>

(* :01006000abf4: one byte, ab in lower case, at 0x060 *)
DataLower ==
    <<":", "0", "1", "0", "0", "6", "0", "0", "0", "a", "b", "f", "4">>

(* :020FFF00AABB8B: two bytes, AA BB, at 0xFFF, the last cell of rw_buf *)
DataLast ==
    <<":", "0", "2", "0", "F", "F", "F", "0", "0", "A", "A", "B", "B",
    "8", "B">>

(* :01006000029E: Data60 with another check sum *)
BadSum ==
    <<":", "0", "1", "0", "0", "6", "0", "0", "0", "0", "2", "9", "E">>

(* 01006000029D: Data60 without the start character *)
NoColon ==
    <<"0", "1", "0", "0", "6", "0", "0", "0", "0", "2", "9", "D">>

(* :0G006000029D: a byte count that is no number *)
BadLength ==
    <<":", "0", "G", "0", "0", "6", "0", "0", "0", "0", "2", "9", "D">>

(* :0110000002ED: a load address of sizeof( rw_buf ) *)
HighAddress ==
    <<":", "0", "1", "1", "0", "0", "0", "0", "0", "0", "2", "E", "D">>

(* :01006001029D: a record of type 01 with data *)
OtherType ==
    <<":", "0", "1", "0", "0", "6", "0", "0", "1", "0", "2", "9", "D">>

(* :010060000G9D: a data byte that is no number *)
BadByte ==
    <<":", "0", "1", "0", "0", "6", "0", "0", "0", "0", "G", "9", "D">>

(* :0000000000: a record of no bytes that is not the end record *)
NoData ==
    <<":", "0", "0", "0", "0", "0", "0", "0", "0", "0", "0">>

GoodLines == {Data60, Data61, DataFF, DataLower, DataLast, EndRecord}

BadLines == {BadSum, NoColon, BadLength, HighAddress, OtherType, BadByte, NoData}

(* the sequences of up to n lines *)
RECURSIVE LineSeqs(_)
LineSeqs(n) ==
    IF n = 0 THEN {<<>>}
    ELSE LET S == LineSeqs(n - 1)
         IN  S \cup {Append(s, l) : s \in S, l \in GoodLines}

HexLines ==
    LineSeqs(MaxLines)
    \cup {a \o <<bad>> \o b : a \in LineSeqs(1), b \in LineSeqs(1), bad \in BadLines}

(* the characters of a file of these lines; the last line has its new     *)
(* line or not                                                             *)
RECURSIVE Text(_, _)
Text(ls, newline) ==
    IF ls = <<>> THEN <<>>
    ELSE Head(ls) \o (IF Len(ls) > 1 \/ newline THEN <<"\n">> ELSE <<>>)
            \o Text(Tail(ls), newline)

HexFile(ls, newline) == [opens |-> TRUE, text |-> Text(ls, newline), eof |-> TRUE]

(* files that decode: the lines a digit of which is replaced *)
ValidLines == {<<Data60, EndRecord>>, <<Data60, Data61, EndRecord>>,
               <<DataFF, Data60, EndRecord>>, <<DataLower, EndRecord>>}

HexDigits == {UpperHex[i] : i \in 1..16} \cup {LowerHex[i] : i \in 1..16}

(* the places of the digits of the data bytes in a record *)
DataSpan(line) == 10..(9 + 2 * get_byte(line, 1).value)

Edits ==
    {[lines |-> ls, line |-> k, place |-> p, digit |-> d] :
        ls \in ValidLines, k \in 1..2, p \in 10..13, d \in HexDigits}

Edited(e) ==
    [e.lines EXCEPT ![e.line] = [@ EXCEPT ![e.place] = e.digit]]

Envs == [junk : {<<0>>, <<165>>, <<0, 165>>}, slack : BOOLEAN]

BinFiles ==
    {[opens |-> TRUE, size |-> n, head |-> <<2, 0>>, fill |-> 0] :
        n \in {0, 1, 2, 256, 257, 4096, 4097, 65536, 65538}}
    \cup {[opens |-> FALSE, size |-> 2, head |-> <<2, 0>>, fill |-> 0]}

(* the calls of the readers: the file, its lines, the edit that made it   *)
FileCalls ==
    {[pc |-> "ihex_read", file |-> HexFile(ls, nl), lines |-> ls, env |-> env] :
        ls \in HexLines, nl \in BOOLEAN, env \in Envs}
    \cup
    {[pc |-> "ihex_read", file |-> f, lines |-> <<Data60, EndRecord>>, env |-> env] :
        f \in {[HexFile(<<Data60, EndRecord>>, TRUE) EXCEPT !.opens = FALSE],
               [HexFile(<<Data60, EndRecord>>, TRUE) EXCEPT !.eof = FALSE]},
        env \in Envs}
    \cup
    {[pc |-> "ihex_read", file |-> HexFile(Edited(e), TRUE), lines |-> Edited(e),
      env |-> env, edit |-> e] :
        e \in {x \in Edits : /\ x.line < Len(x.lines)
                             /\ x.place \in DataSpan(x.lines[x.line])
                             /\ x.digit # x.lines[x.line][x.place]},
        env \in Envs}
    \cup
    {[pc |-> "bin_read", file |-> f] : f \in BinFiles}

----------------------------------------------------------------------------
(* The memory images and the command lines *)


MemImages == {
    [blocks |-> <<Block(96, 2)>>, rw_buf |-> (96 :> 2) @@ (97 :> 0)],
    [blocks |-> <<Block(96, 1), Block(255, 2)>>,
     rw_buf |-> (96 :> 3) @@ (255 :> 128) @@ (256 :> 0)],
    [blocks |-> <<Block(97, 0)>>, rw_buf |-> (97 :> 0)],
    [blocks |-> <<>>, rw_buf |-> <<>>] }

StdinLines == {<<"Y", "E", "S", "\n">>, <<"Y", "E", "S">>,
               <<"y", "e", "s", "\n">>, <<"Y", "E", "S", " ", "\n">>, <<NUL>>}

(* the address and the count of the command lines that read *)
Ranges == {<<NoOption, NoOption>>, <<255, 1>>, <<96, 1>>, <<255, 2>>, <<256, 1>>}

(* the command line has no -i *)
NoFile == [whole |-> FALSE]

(* format_t *)
BIN == 0
IHEX == 1

(* the input files of the command lines with -i: the format, the file,    *)
(* the chip, and whether the link of the run delivers every response       *)
(* whole (the run over the long file)                                      *)
GoodEnv == [junk |-> <<0>>, slack |-> TRUE]

InputFiles ==
    {[format |-> BIN, chip |-> CHIP_256X8, whole |-> n > 2,
      file |-> [opens |-> TRUE, size |-> n, head |-> <<2, 0>>, fill |-> 0]] :
        n \in {0, 2, 257, 4097, 65538}}
    \cup
    {[format |-> IHEX, chip |-> i[1], whole |-> FALSE, file |-> HexFile(i[2], TRUE),
      env |-> i[3], lines |-> i[2]] :
        i \in {<<CHIP_256X8, <<Data60, Data61, EndRecord>>, GoodEnv>>,
               <<CHIP_256X8, <<Data60, DataFF, EndRecord>>, GoodEnv>>,
               <<CHIP_512X8, <<Data60, DataFF, EndRecord>>, GoodEnv>>,
               <<CHIP_256X8, <<Data60>>, GoodEnv>>,
               <<CHIP_256X8, <<Data60, Data61, EndRecord>>,
                 [junk |-> <<165>>, slack |-> TRUE]>>,
               <<CHIP_256X8, <<Data60, Data61, EndRecord>>,
                 [junk |-> <<0>>, slack |-> FALSE]>>}}

Options ==
    {[function |-> "command_write", chip |-> CHIP_256X8, blocks |-> m.blocks,
      rw_buf |-> m.rw_buf, stdin |-> l, address |-> NoOption,
      count |-> NoOption, ifile |-> NoFile] : m \in MemImages, l \in StdinLines}
    \cup
    {[function |-> f, chip |-> CHIP_256X8, blocks |-> m.blocks,
      rw_buf |-> m.rw_buf, stdin |-> <<NUL>>, address |-> NoOption,
      count |-> NoOption, ifile |-> NoFile] :
         m \in MemImages, f \in {"command_simul", "command_verify"}}
    \cup
    {[function |-> "command_read", chip |-> CHIP_256X8, blocks |-> <<>>,
      rw_buf |-> <<>>, stdin |-> <<NUL>>, address |-> r[1], count |-> r[2],
      ifile |-> NoFile] :
         r \in Ranges}
    \cup
    {[function |-> "command_blank", chip |-> c, blocks |-> <<>>,
      rw_buf |-> <<>>, stdin |-> <<NUL>>, address |-> NoOption,
      count |-> NoOption, ifile |-> NoFile] : c \in {CHIP_256X8, CHIP_512X8}}
    \cup
    {[function |-> f, chip |-> i.chip, blocks |-> <<>>, rw_buf |-> <<>>,
      stdin |-> <<"Y", "E", "S", "\n">>, address |-> NoOption,
      count |-> NoOption, ifile |-> i] :
         f \in {"command_write", "command_simul", "command_verify"},
         i \in InputFiles}

(* main() after serial_init, before it looks at the options; the fields   *)
(* from written on are history:                                            *)
(* written counts the wire commands of command_execute, versions the "V"   *)
(* of command_init, reads the serial_read calls since the last write,      *)
(* unread the characters of responses that were not yet read at the last   *)
(* write, busy whether the programmer was then still at work on an earlier *)
(* request, boot the characters printed at start-up that are not yet read, *)
(* before the chips at start, answers the address and the characters of    *)
(* each response command_execute read, report what the mismatch message    *)
(* names,                                                                  *)
(* init what command_init returned and hello the characters it had read    *)
(* last, splits the reads that returned a part of what was pending.        *)
HostStart(image, greeting) ==
    [pc |-> "init_write", function |-> NUL, chip |-> CHIP_256X8,
     blocks |-> <<>>, rw_buf |-> <<>>, stdin |-> <<NUL>>, ifile |-> NoFile,
     read |-> NUL, address |-> NoOption, count |-> NoOption, received |-> 0,
     tries |-> 0, returned |-> 0, rec_buf |-> <<>>, b |-> 1, loc |-> 0,
     ret |-> NUL, err |-> NUL, report |-> <<>>,
     written |-> 0, versions |-> 0, reads |-> 0, unread |-> 0, busy |-> FALSE,
     boot |-> Len(greeting), before |-> image, answers |-> <<>>,
     init |-> NUL, hello |-> <<>>, splits |-> 0]

InitHost ==
    \E image \in Images :
        LET r == programmer_init(setup([hw |-> ResetPins, log |-> <<>>,
                                        prom |-> image]))
        IN  /\ state = r.state
            /\ cmd_data = r.cmd
            /\ rx = <<>>
            /\ tx = r.out
            /\ prom = r.b.prom
            /\ hw = r.b.hw
            /\ log = r.b.log
            /\ last = NoCall
            /\ parsed = <<>>
            /\ sent = 0
            /\ req = <<>>
            /\ lines = 0
            /\ status = <<>>
            /\ mark = 0
            /\ hung = FALSE
            /\ host = HostStart(image, r.out)

(* main(): return cleanup( fd, ret ) *)
Exit(h, ret, err) == [h EXCEPT !.pc = "exit", !.ret = ret, !.err = err]

(* serial_write: the characters are on their way to the programmer *)
Written(h) ==
    [h EXCEPT !.reads = 0, !.unread = Len(tx) - h.boot,
              !.busy = (rx # <<>> \/ state # ST_READY)]

serial_write(line) ==
    /\ rx' = rx \o line
    /\ req' = line
    /\ sent' = sent + 1
    /\ lines' = IF line[Len(line)] = "\n" THEN lines + 1 ELSE lines
    /\ mark' = Len(status)
    /\ UNCHANGED <<state, cmd_data, tx, prom, hw, log, last, parsed, status, hung>>

(* loop(): the programmer waits for characters, or get_command never     *)
(* returns                                                                 *)
Silent ==
    \/ hung
    \/ /\ Selected.function \in {"get_command", "get_chip"}
       /\ wait_first_non_blank(rx) = <<>>
    \/ /\ Selected.function \in {"get_address", "get_value"}
       /\ ~get_hex(rx).ready

(* the link delivers all that is pending from now on *)
Whole == host.splits >= MaxSplits

(* a serial_read that returned r *)
Read(h, r) ==
    [h EXCEPT !.reads = @ + 1, !.returned = r.returned, !.rec_buf = r.buffer,
              !.boot = IF r.returned < @ THEN @ - r.returned ELSE 0,
              !.splits = IF r.returned < Len(tx) THEN @ + 1 ELSE @]

Link(r) ==
    /\ tx' = SubSeq(tx, r.returned + 1, Len(tx))
    /\ UNCHANGED <<state, cmd_data, rx, prom, hw, log, last, parsed, sent, req,
                   lines, status, mark, hung>>

(* slip: an address beyond the last cell of the chip is passed over *)
RECURSIVE command_execute_SkipsRange(_)
command_execute_SkipsRange(h) ==
    IF h.b > Len(h.blocks) THEN Exit(h, SUCCESS, NUL)
    ELSE LET end == (h.blocks[h.b].start + h.blocks[h.b].count) % 65536
         IN  IF h.loc >= end \/ h.loc >= chip_sizes[h.chip]
             THEN command_execute_SkipsRange(
                     [h EXCEPT !.b = @ + 1,
                               !.loc = IF h.b < Len(h.blocks)
                                       THEN h.blocks[h.b + 1].start ELSE 0])
             ELSE [h EXCEPT !.pc = "exec_write"]

(* command_execute from b = blocks on: the loops up to the next call of   *)
(* serial_write, or up to the return                                       *)
RECURSIVE command_execute(_)
command_execute(h) ==
    IF h.b > Len(h.blocks) THEN Exit(h, SUCCESS, NUL)
    ELSE LET end == (h.blocks[h.b].start + h.blocks[h.b].count) % 65536
         IN  IF h.loc >= end
             THEN command_execute(
                     [h EXCEPT !.b = @ + 1,
                               !.loc = IF h.b < Len(h.blocks)
                                       THEN h.blocks[h.b + 1].start ELSE 0])
             ELSE IF h.loc >= chip_sizes[h.chip]
                  THEN Exit(h, FAILURE, "range")
                  ELSE [h EXCEPT !.pc = "exec_write"]

(* format->read_fn( ifile, rw_buf, sizeof( rw_buf ), &blocks ) *)
read_fn(ifile) ==
    IF ifile.format = IHEX THEN ihex_read(ifile.file, RW_BUF_SIZE, ifile.env)
    ELSE bin_read(ifile.file, RW_BUF_SIZE)

(* the cells of rw_buf at the addresses of the blocks *)
RECURSIVE Cells(_, _)
Cells(blocks, data) ==
    IF blocks = <<>> THEN <<>>
    ELSE [a \in {x \in Head(blocks).start
                          ..(Head(blocks).start + Head(blocks).count - 1) :
                    x < RW_BUF_SIZE} |-> At(data, a)]
            @@ Cells(Tail(blocks), data)

(* command_execute up to b = blocks: with an input file the blocks and    *)
(* rw_buf are what read_fn made of it, and FAILURE of read_fn is returned  *)
Enter(h, command) ==
    IF "file" \notin DOMAIN h.ifile
    THEN command_execute(
            [h EXCEPT !.b = 1,
                      !.loc = IF h.blocks # <<>> THEN h.blocks[1].start ELSE 0])
    ELSE LET r == read_fn(h.ifile)
         IN  IF r.status = ABORTED THEN [h EXCEPT !.pc = "killed", !.read = ABORTED]
             ELSE IF r.status = FAILURE
             THEN [Exit(h, FAILURE, "file") EXCEPT !.read = FAILURE]
             ELSE command_execute(
                     [h EXCEPT !.blocks = r.blocks,
                               !.rw_buf = Cells(r.blocks, r.data),
                               !.read = SUCCESS,
                               !.b = 1,
                               !.loc = IF r.blocks # <<>> THEN r.blocks[1].start
                                       ELSE 0])

(* the character of the wire command and the function that formats it *)
WireCommand(h) ==
    CASE h.function = "command_write" -> "w"
      [] h.function = "command_simul" -> "s"
      [] h.function = "command_verify" -> "r"

command_fn(h) ==
    IF h.function = "command_verify"
    THEN command_set_read(WireCommand(h), h.chip, h.loc, h.rw_buf[h.loc])
    ELSE command_set_write(WireCommand(h), h.chip, h.loc, h.rw_buf[h.loc])

(* slip: strncmp over the three letters *)
command_write_Prefix(h) ==
    IF h.stdin # <<NUL>> /\ Len(h.stdin) >= 3
       /\ SubSeq(h.stdin, 1, 3) = <<"Y", "E", "S">>
    THEN Enter(h, "w")
    ELSE Exit(h, FAILURE, "aborted")

(* command_write: the confirmation read from standard input *)
command_write(h) ==
    IF h.stdin # <<NUL>> /\ h.stdin = <<"Y", "E", "S", "\n">>
    THEN Enter(h, "w")
    ELSE Exit(h, FAILURE, "aborted")

command_simul(h) == Enter(h, "s")

command_verify(h) == Enter(h, "r")

(* command_read up to its serial_write: the defaults and the checks of    *)
(* the address and the count                                               *)
command_read(h) ==
    LET count == IF h.count = NoOption THEN chip_sizes[h.chip] ELSE h.count
        address == IF h.address = NoOption THEN 0 ELSE h.address
        g == [h EXCEPT !.count = count, !.address = address]
    IN  IF address >= chip_sizes[h.chip] THEN Exit(g, FAILURE, "range")
        ELSE IF address + count > chip_sizes[h.chip] THEN Exit(g, FAILURE, "range")
        ELSE [g EXCEPT !.pc = "read_write"]

(* command_blank up to its serial_write *)
command_blank(h) == [h EXCEPT !.pc = "blank_write"]

(* main(): ret = options.command->function( ... ) with the options o of   *)
(* the command line                                                        *)
main(h, o) ==
    LET g == [h EXCEPT !.function = o.function, !.chip = o.chip,
                       !.blocks = o.blocks, !.rw_buf = o.rw_buf,
                       !.stdin = o.stdin, !.address = o.address,
                       !.count = o.count, !.ifile = o.ifile,
                       !.splits = IF o.ifile.whole
                                  THEN MaxSplits ELSE @]
    IN  CASE o.function = "command_write" -> [g EXCEPT !.pc = "confirm"]
          [] o.function = "command_simul" -> command_simul(g)
          [] o.function = "command_verify" -> command_verify(g)
          [] o.function = "command_read" -> command_read(g)
          [] o.function = "command_blank" -> command_blank(g)

(* slip: the number of characters read is not looked at *)
command_init_AnyLength(h) ==
    LET sc == sscanf_version(h.rec_buf)
    IN  IF sc.n # 4 \/ sc.status # "R"
        THEN [Exit(h, FAILURE, "not_detected") EXCEPT
                 !.init = FAILURE, !.hello = h.rec_buf]
        ELSE [h EXCEPT !.pc = "main", !.ret = SUCCESS, !.init = SUCCESS,
                       !.hello = h.rec_buf]

(* command_init after the loop; with SUCCESS main() goes on *)
command_init(h) ==
    LET sc == sscanf_version(h.rec_buf)
    IN  IF h.returned # VERSION_BYTES \/ sc.n # 4 \/ sc.status # "R"
        THEN [Exit(h, FAILURE, "not_detected") EXCEPT
                 !.init = FAILURE, !.hello = h.rec_buf]
        ELSE [h EXCEPT !.pc = "main", !.ret = SUCCESS, !.init = SUCCESS,
                       !.hello = h.rec_buf]

(* main(): the function is called if command_init returned SUCCESS *)
Dispatch(h) ==
    IF h.pc = "main" THEN {main(h, o) : o \in Options} ELSE {h}

CommandInitWrite ==
    /\ host.pc = "init_write"
    /\ \E ok \in BOOLEAN :
          IF ok
          THEN /\ serial_write(<<"V">>)
               /\ host' = [Written(host) EXCEPT !.pc = "init_read",
                                                !.versions = @ + 1]
          ELSE /\ host' = [Exit(host, FAILURE, "io") EXCEPT !.init = FAILURE]
               /\ UNCHANGED <<state, cmd_data, rx, tx, prom, hw, log, last,
                              parsed, sent, req, lines, status, mark, hung>>

CommandInitRead ==
    /\ host.pc = "init_read"
    /\ \E r \in serial_read(tx, REC_BUF_SIZE, Silent, Whole) :
          /\ Link(r)
          /\ host' \in Dispatch(
                IF r.status = FAILURE
                THEN [Exit(host, FAILURE, "io") EXCEPT !.init = FAILURE]
                ELSE IF r.returned = VERSION_BYTES
                     THEN command_init(Read(host, r))
                     ELSE IF host.tries + 1 < INIT_TRIES
                          THEN [Read(host, r) EXCEPT !.pc = "init_write",
                                                     !.tries = @ + 1]
                          ELSE command_init([Read(host, r) EXCEPT !.tries = @ + 1]))

CommandWrite ==
    /\ host.pc = "confirm"
    /\ host' = command_write(host)
    /\ UNCHANGED <<state, cmd_data, rx, tx, prom, hw, log, last, parsed, sent,
                   req, lines, status, mark, hung>>

CommandExecuteWrite ==
    /\ host.pc = "exec_write"
    /\ \E ok \in BOOLEAN :
          IF ok
          THEN /\ serial_write(command_fn(host))
               /\ host' = [Written(host) EXCEPT !.pc = "exec_read", !.tries = 0,
                                                !.rec_buf = command_fn(host),
                                                !.written = @ + 1]
          ELSE /\ host' = Exit([host EXCEPT !.rec_buf = command_fn(host)],
                               FAILURE, "io")
               /\ UNCHANGED <<state, cmd_data, rx, tx, prom, hw, log, last,
                              parsed, sent, req, lines, status, mark, hung>>

(* slip: a value that differs is reported and the loop goes on *)
Response_NoAbort(h) ==
    LET sc == sscanf(h.rec_buf, 8)
    IN  IF sc.n # 2 \/ sc.status # "R" THEN Exit(h, FAILURE, "bad_response")
        ELSE IF sc.value # h.rw_buf[h.loc]
             THEN command_execute(
                     [h EXCEPT !.loc = (@ + 1) % 65536, !.err = "mismatch",
                               !.report = <<h.loc, sc.value, h.rw_buf[h.loc]>>])
             ELSE command_execute([h EXCEPT !.loc = (@ + 1) % 65536])

(* command_execute from the response on: the checks, ++loc and the loops  *)
Response(h) ==
    LET sc == sscanf(h.rec_buf, 8)
    IN  IF sc.n # 2 \/ sc.status # "R" THEN Exit(h, FAILURE, "bad_response")
        ELSE IF sc.value # h.rw_buf[h.loc]
             THEN [Exit(h, FAILURE, "mismatch") EXCEPT
                      !.report = <<h.loc, sc.value, h.rw_buf[h.loc]>>]
             ELSE command_execute([h EXCEPT !.loc = (@ + 1) % 65536])

(* slip: one more try than the loop allows *)
NoAnswer_OneMore(h) ==
    IF h.tries + 1 <= EXEC_TRIES
    THEN [h EXCEPT !.tries = @ + 1]
    ELSE Exit([h EXCEPT !.tries = @ + 1], FAILURE, "no_response")

(* command_execute, command_blank: a read that returned nothing; the loop *)
(* goes on while tries < 5, and after it returned == 0 is no response      *)
NoAnswer(h) ==
    IF h.tries + 1 < EXEC_TRIES
    THEN [h EXCEPT !.tries = @ + 1]
    ELSE Exit([h EXCEPT !.tries = @ + 1], FAILURE, "no_response")

CommandExecuteRead ==
    /\ host.pc = "exec_read"
    /\ \E r \in serial_read(tx, REC_BUF_SIZE, Silent, Whole) :
          /\ Link(r)
          /\ host' =
                IF r.status = FAILURE THEN Exit(host, FAILURE, "io")
                ELSE LET h == Read(host, r)
                     IN  IF r.returned # 0
                         THEN Response([h EXCEPT !.answers =
                                 Append(@, [loc |-> h.loc, buf |-> r.buffer])])
                         ELSE NoAnswer(h)

(* command_blank: sprintf( rec_buf, "K %x\n", chip ) and serial_write *)
BlankRequest(h) == <<"K", " ">> \o sprintf_x(h.chip) \o <<"\n">>

CommandBlankWrite ==
    /\ host.pc = "blank_write"
    /\ \E ok \in BOOLEAN :
          IF ok
          THEN /\ serial_write(BlankRequest(host))
               /\ host' = [Written(host) EXCEPT !.pc = "blank_read", !.tries = 0,
                                                !.rec_buf = BlankRequest(host)]
          ELSE /\ host' = Exit([host EXCEPT !.rec_buf = BlankRequest(host)],
                               FAILURE, "io")
               /\ UNCHANGED <<state, cmd_data, rx, tx, prom, hw, log, last,
                              parsed, sent, req, lines, status, mark, hung>>

(* command_blank from the response on; report is what it prints *)
BlankResponse(h) ==
    LET sc == sscanf(h.rec_buf, 16)
    IN  IF sc.n # 2 \/ sc.status # "R" THEN Exit(h, FAILURE, "bad_response")
        ELSE IF sc.value = chip_sizes[h.chip]
             THEN [Exit(h, SUCCESS, NUL) EXCEPT !.report = <<"blank">>]
             ELSE [Exit(h, SUCCESS, NUL) EXCEPT !.report = <<"not blank", sc.value>>]

CommandBlankRead ==
    /\ host.pc = "blank_read"
    /\ \E r \in serial_read(tx, REC_BUF_SIZE, Silent, Whole) :
          /\ Link(r)
          /\ host' =
                IF r.status = FAILURE THEN Exit(host, FAILURE, "io")
                ELSE LET h == Read(host, r)
                     IN  IF r.returned # 0 THEN BlankResponse(h) ELSE NoAnswer(h)

(* command_read: sprintf( rec_buf, "r %x %x %x\n", chip, address, count ) *)
(* and serial_write                                                        *)
ReadRequest(h) ==
    <<"r", " ">> \o sprintf_x(h.chip) \o <<" ">> \o sprintf_x(h.address)
        \o <<" ">> \o sprintf_x(h.count) \o <<"\n">>

CommandReadWrite ==
    /\ host.pc = "read_write"
    /\ \E ok \in BOOLEAN :
          IF ok
          THEN /\ serial_write(ReadRequest(host))
               /\ host' = [Written(host) EXCEPT !.pc = "read_read", !.tries = 0,
                                                !.received = 0,
                                                !.rec_buf = ReadRequest(host)]
          ELSE /\ host' = Exit([host EXCEPT !.rec_buf = ReadRequest(host)],
                               FAILURE, "io")
               /\ UNCHANGED <<state, cmd_data, rx, tx, prom, hw, log, last,
                              parsed, sent, req, lines, status, mark, hung>>

(* get_hexbyte: two hexadecimal digits, -1 for EINVAL *)
get_hexbyte(s) ==
    IF Len(s) >= 2 /\ isHexadecimalDigit(s[1]) /\ isHexadecimalDigit(s[2])
    THEN HexDigitValue(s[1]) * 16 + HexDigitValue(s[2])
    ELSE -1

(* command_read after the loop: the status after count * 2 characters,    *)
(* then the bytes; report is what hexdump prints                           *)
ReadResponse(h) ==
    LET t == wait_first_non_blank(SubSeq(h.rec_buf, h.count * 2 + 1, Len(h.rec_buf)))
        bytes == [i \in 1..h.count |->
                     get_hexbyte(SubSeq(h.rec_buf, 2 * i - 1, Len(h.rec_buf)))]
    IN  IF h.tries = READ_TRIES THEN Exit(h, FAILURE, "no_response")
        ELSE IF t = <<>> \/ Head(t) # "R" THEN Exit(h, FAILURE, "bad_response")
        ELSE IF \E i \in 1..h.count : bytes[i] = -1
             THEN Exit(h, FAILURE, "bad_response")
             ELSE [Exit(h, SUCCESS, NUL) EXCEPT !.report = bytes]

(* command_read: one turn of the loop.  The characters read are appended  *)
(* to rec_buf; the loop ends when count * 2 + 5 characters are there.  A   *)
(* wait times out only when the programmer is silent, and then every later *)
(* wait of the loop times out as well: the action runs the loop to its end.*)
ReadTurn(h, r) ==
    LET g == [h EXCEPT !.received = @ + r.returned]
    IN  IF g.received = g.count * 2 + 5 THEN ReadResponse(g)
        ELSE IF r.returned = 0
             THEN ReadResponse([g EXCEPT !.reads = @ + (READ_TRIES - (g.tries + 1)),
                                         !.tries = READ_TRIES])
             ELSE IF g.tries + 1 < READ_TRIES THEN [g EXCEPT !.tries = @ + 1]
                  ELSE ReadResponse([g EXCEPT !.tries = READ_TRIES])

CommandReadRead ==
    /\ host.pc = "read_read"
    /\ \E r \in serial_read(tx, REC_BUF_SIZE - host.address - host.received, Silent, Whole) :
          /\ Link(r)
          /\ host' =
                IF r.status = FAILURE THEN Exit(host, FAILURE, "io")
                ELSE ReadTurn([Read(host, r) EXCEPT !.rec_buf =
                                 SubSeq(host.rec_buf, 1, host.received) \o r.buffer],
                              r)

NextHost ==
    \/ CommandInitWrite
    \/ CommandInitRead
    \/ CommandWrite
    \/ CommandExecuteWrite
    \/ CommandExecuteRead
    \/ CommandBlankWrite
    \/ CommandBlankRead
    \/ CommandReadWrite
    \/ CommandReadRead
    \/ SkipSpace
    \/ GetCommand
    \/ GetChip
    \/ GetAddress
    \/ GetValue
    \/ PrintVersion
    \/ ExecBlankCheck
    \/ ExecReadPromByte
    \/ ExecWritePromByte
    \/ ExecSimulWritePromByte
    \/ NoRule

SpecHost == InitHost /\ [][NextHost]_vars

----------------------------------------------------------------------------
(* the calls of the writer: an image of size bytes, the base address, and  *)
(* what the C standard leaves open when the file written is read again      *)
WriteCalls ==
    {[pc |-> "ihex_write", data |-> [i \in 0..(n - 1) |-> (k * i + 255) % 256],
      size |-> n, base |-> b, env |-> env] :
        k \in {0, 7}, n \in {1, 32, 33, 64, 256, 512}, b \in {0, 16, 255},
        env \in Envs}

(* The readers and the writer of the file formats on the files of the     *)
(* model: host is the call, what it returned and what was written.         *)

InitFile ==
    /\ \E image \in {[c \in 0..(NUM_CHIPS - 1) |-> BlankChip]} :
        LET r == programmer_init(setup([hw |-> ResetPins, log |-> <<>>,
                                        prom |-> image]))
        IN  /\ state = r.state
            /\ cmd_data = r.cmd
            /\ rx = <<>>
            /\ tx = r.out
            /\ prom = r.b.prom
            /\ hw = r.b.hw
            /\ log = r.b.log
            /\ last = NoCall
            /\ parsed = <<>>
            /\ sent = 0
            /\ req = <<>>
            /\ lines = 0
            /\ status = <<>>
            /\ mark = 0
            /\ hung = FALSE
    /\ host \in FileCalls \cup WriteCalls

Idle ==
    UNCHANGED <<state, cmd_data, rx, tx, prom, hw, log, last, parsed, sent, req,
                lines, status, mark, hung>>

IhexRead ==
    /\ host.pc = "ihex_read"
    /\ host' = [pc |-> "decoded", read |-> ihex_read(host.file, RW_BUF_SIZE, host.env)]
                  @@ host
    /\ Idle

BinRead ==
    /\ host.pc = "bin_read"
    /\ host' = [pc |-> "read", read |-> bin_read(host.file, RW_BUF_SIZE)] @@ host
    /\ Idle

(* the image that was decoded is written with base address 0 *)
IhexWrite ==
    /\ host.pc = "decoded"
    /\ host.read.status = SUCCESS
    /\ \E ok \in BOOLEAN :
          host' = [pc |-> "encoded",
                   written |-> ihex_write(host.read.data, RW_BUF_SIZE, 0, ok)]
                     @@ host
    /\ Idle

(* ihex_write on an image *)
IhexWriteImage ==
    /\ host.pc = "ihex_write"
    /\ \E ok \in BOOLEAN :
          host' = [pc |-> "written",
                   written |-> ihex_write(host.data, host.size, host.base, ok)]
                     @@ host
    /\ Idle

(* ihex_read on the file that ihex_write has written *)
IhexReadBack ==
    /\ host.pc = "written"
    /\ host.written.status = SUCCESS
    /\ host' = [pc |-> "reread",
                read |-> ihex_read([opens |-> TRUE, text |-> host.written.text,
                                    eof |-> TRUE],
                                   RW_BUF_SIZE, host.env)] @@ host
    /\ Idle

NextFile == IhexRead \/ BinRead \/ IhexWrite \/ IhexWriteImage \/ IhexReadBack

SpecFile == InitFile /\ [][NextFile]_vars

----------------------------------------------------------------------------
(* Vocabulary of the properties.  last describes the handler that ran      *)
(* last, log holds what it did to the board, cmd_data the request it ran   *)
(* for.  These stay as they are until the next command character is read.  *)

Wrote == last.fn = "exec_write_prom_byte"

Simulated == last.fn = "exec_simul_write_prom_byte"

BlankChecked == last.fn = "exec_blank_check"

ExecHandlers == {"exec_read_prom", "exec_blank_check", "exec_read_prom_byte",
                 "exec_write_prom_byte", "exec_simul_write_prom_byte"}

(* the cell the request addresses, as it is now *)
Addressed == Cell(prom, cmd_data.chip, cmd_data.address)

IsProgBit(e) == e[1] = "prog_bit"

IsBusRead(e) == e[1] = "PINF"

(* the programming pulses of the last handler, in the order given *)
Pulses == SelectSeq(log, IsProgBit)

(* the bytes the last handler read from the data bus, in the order read *)
BusReads == SelectSeq(log, IsBusRead)

(* the verification that followed the pulse on bit f found the bit unset *)
FailedBit(f) == \E i \in 1..Len(log) : log[i] = <<"read_bit", 2^f, FALSE>>

Verified == \A f \in Bits : ~FailedBit(f)

(* bit b can be burnt: unset in the cell, set in the target *)
Burnable(e, t, b) == Bit(e, b) = 0 /\ Bit(t, b) = 1

(* bit b cannot be reached: set in the cell, unset in the target *)
Impossible(e, t, b) == Bit(e, b) = 1 /\ Bit(t, b) = 0

(* the lowest bit position that cannot be reached, 8 if there is none *)
FirstImpossible(e, t) ==
    IF \E b \in Bits : Impossible(e, t, b)
    THEN CHOOSE b \in Bits : /\ Impossible(e, t, b)
                             /\ \A c \in 0..(b - 1) : ~Impossible(e, t, c)
    ELSE 8

Achievable(e, t) == Or8(e, And8(t, 2^FirstImpossible(e, t) - 1))

(* the board with the addressed cell as it was before the last handler *)
BoardBefore ==
    LET c == cmd_data.chip
        erased == [prom EXCEPT ![c] =
                     [a \in (DOMAIN prom[c]) \ {cmd_data.address} |-> prom[c][a]]]
    IN  [hw |-> hw, log |-> <<>>,
         prom |-> Blown(erased, c, cmd_data.address, last.before)]

(* the fields each command takes after its character, in grammar order *)
Grammar(c) ==
    CASE c \in {"R", "K"} -> <<"chip">>
      [] c = "r" -> <<"chip", "address">>
      [] c \in {"w", "s"} -> <<"chip", "address", "value">>
      [] OTHER -> <<>>

(* the addresses of a chip whose byte is not zero (prom lists no others) *)
NonZero(chip) == {a \in DOMAIN prom[chip] : Cell(prom, chip, a) # 0}

Lowest(S) == CHOOSE a \in S : \A x \in S : a <= x

----------------------------------------------------------------------------
(* C1: a simulated write of target t over a cell holding e reports         *)
(* e OR (t AND (2^k - 1)), where k is the lowest bit position set in e and *)
(* unset in t (8 when there is none), as one hexadecimal line followed by  *)
(* the status R.                                                           *)
C1_SimulateResult ==
    Simulated =>
        /\ last.existing = last.before
        /\ last.returned = Achievable(last.before, cmd_data.value)
        /\ last.out = println(printNumber(last.returned, 16)) \o println(<<"R">>)
        /\ sscanf(last.out, 8) = [n |-> 2, value |-> last.returned, status |-> "R"]

C1_Witness ==
    /\ Simulated
    /\ last.before = 2
    /\ cmd_data.value = 1
    /\ sscanf(last.out, 8).value = 3

(* C2: when the cell already holds the target, a write and a simulation    *)
(* give no programming pulse, leave the cell as it was and report the      *)
(* cell's value.                                                           *)
C2_EqualIsNoOp ==
    ((Wrote \/ Simulated) /\ last.before = cmd_data.value) =>
        /\ Pulses = <<>>
        /\ Addressed = last.before
        /\ sscanf(last.out, 8) = [n |-> 2, value |-> last.before, status |-> "R"]

C2_Witness ==
    /\ Wrote
    /\ last.before = 165
    /\ cmd_data.value = 165
    /\ Addressed = 165

(* C3: a real write pulses only bit positions unset in the cell and set in *)
(* the target, each at most once, in ascending order of bit position.      *)
C3_PulsesOnlyBurnable ==
    Wrote =>
        LET pulses == Pulses
        IN  \A i \in 1..Len(pulses) :
                /\ \E b \in Bits : /\ pulses[i][2] = 2^b
                                   /\ Burnable(last.before, cmd_data.value, b)
                /\ i > 1 => pulses[i - 1][2] < pulses[i][2]

C3_Witness ==
    /\ Wrote
    /\ Len(Pulses) >= 3
    /\ \E b \in Bits : Impossible(last.before, cmd_data.value, b)

(* C4: when the verification of a pulsed bit fails the write stops: that   *)
(* pulse is the last one, the reported byte has the failed bit unset, the  *)
(* bits above it as they were in the cell and the bits below it as         *)
(* processed.                                                              *)
C4_StopsAtFailedBit ==
    Wrote =>
        \A f \in Bits :
            FailedBit(f) =>
                /\ Pulses # <<>>
                /\ Pulses[Len(Pulses)] = <<"prog_bit", 2^f>>
                /\ Bit(last.returned, f) = 0
                /\ \A b \in (f + 1)..7 : Bit(last.returned, b) = Bit(last.before, b)
                /\ \A b \in 0..(f - 1) :
                       /\ ~Impossible(last.before, cmd_data.value, b)
                       /\ Bit(last.returned, b) = Bit(cmd_data.value, b)

C4_Witness ==
    /\ Wrote
    /\ FailedBit(2)
    /\ Len(Pulses) = 2
    /\ \E b \in 3..7 : Burnable(last.before, cmd_data.value, b)

(* C5: a simulation never burns: while it runs the 10.5 V supply is never  *)
(* switched on and prog_bit is never called, and the step that runs it     *)
(* leaves every cell of every chip as it was.                              *)
C5_SimulateNeverBurns ==
    /\ [](Simulated =>
            /\ Pulses = <<>>
            /\ \A i \in 1..Len(log) : log[i] # <<"VCC_10V5", HIGH>>
            /\ hw.VCC_10V5 = LOW)
    /\ [][(last'.fn = "exec_simul_write_prom_byte") => prom' = prom]_vars

C5_Witness ==
    /\ Simulated
    /\ last.returned # last.existing
    /\ Addressed = last.existing
    /\ sent = 2

(* C6: when every burn of a write verifies, the write reports the value    *)
(* that a simulation of the same target on the cell as it was reports.     *)
C6_SimulatePredictsWrite ==
    (Wrote /\ Verified) =>
        /\ last.out = exec_simul_write_prom_byte(BoardBefore, cmd_data).out
        /\ last.returned = exec_simul_write_prom_byte(BoardBefore, cmd_data).returned

C6_Witness ==
    /\ Wrote
    /\ Verified
    /\ Len(Pulses) = 2
    /\ last.returned # cmd_data.value

(* C7: the value a write sends to the host is the byte the cell holds      *)
(* after the write, whatever the verifications found.                      *)
C7_WriteReturnsCell ==
    Wrote => sscanf(last.out, 8) = [n |-> 2, value |-> Addressed, status |-> "R"]

C7_Witness ==
    /\ Wrote
    /\ ~Verified
    /\ Addressed # last.before
    /\ Addressed # cmd_data.value

(* C8: fuses burn one way and one cell at a time: in every step no bit of  *)
(* any cell goes from set to unset, only exec_write_prom_byte changes the  *)
(* contents, and it changes at most the addressed cell of the chip the     *)
(* request selects.                                                        *)
C8_FusesOneWay ==
    [][ \/ prom' = prom
        \/ /\ last'.fn = "exec_write_prom_byte"
           /\ cmd_data' = cmd_data
           /\ \A c \in 0..(NUM_CHIPS - 1) : \A a \in 0..(chip_sizes[c] - 1) :
                 /\ And8(Cell(prom, c, a), Cell(prom', c, a)) = Cell(prom, c, a)
                 /\ (c # cmd_data.chip \/ a # cmd_data.address)
                       => Cell(prom', c, a) = Cell(prom, c, a) ]_vars

C8_Witness ==
    /\ Wrote
    /\ cmd_data.chip = CHIP_512X8
    /\ Addressed # last.before
    /\ sent = 2

C10_ExecAfterFields ==
    /\ state = ST_EXEC =>
          /\ cmd_data.command \in {"R", "K", "r", "w", "s"}
          /\ parsed = Grammar(cmd_data.command)
    /\ last.fn \in ExecHandlers =>
          /\ last.state = ST_EXEC
          /\ parsed = Grammar(cmd_data.command)
          /\ \E i \in 1..Len(machine) :
                 machine[i] = Rule(cmd_data.command, ST_EXEC, last.fn, ST_READY)

C10_Witness ==
    /\ state = ST_EXEC
    /\ cmd_data.command = "r"
    /\ sent = 2
    /\ cmd_data.value # 0

----------------------------------------------------------------------------
(* Vocabulary of the properties of the interpreter *)

(* the device has read all it was sent and waits for a command character *)
Quiescent == state = ST_READY /\ rx = <<>> /\ ~hung

(* the status lines printed since the last request was sent *)
Answer == SubSeq(status, mark + 1, Len(status))

(* an error line was printed before the last request was sent *)
ErredBefore == \E i \in 1..mark : status[i] = "E"

NotSpace(c) == ~isSpace(c)

(* the characters of the token a parsing handler read, without white space *)
Token == SelectSeq(last.token, NotSpace)

AllHex(t) == \A i \in 1..Len(t) : isHexadecimalDigit(t[i])

(* the number a string of hexadecimal digits denotes, 65536 standing for   *)
(* every number from 65536 on                                              *)
RECURSIVE Numeric(_, _)
Numeric(t, acc) ==
    IF t = <<>> THEN acc
    ELSE LET n == acc * 16 + HexDigitValue(Head(t))
         IN  Numeric(Tail(t), IF n > 65536 THEN 65536 ELSE n)

(* the requests of the model that follow the grammar of their command *)
WellFormedRequests == {
    <<"V">>,
    Line(<<"R", " ", "0">>),
    Line(<<"K", " ", "0">>),
    Line(<<"K", " ", "1">>),
    Line(<<"r", " ", "0", " ", "6", "0">>),
    Line(<<"w", " ", "0", " ", "0", "6", "0", " ", "0", "3">>),
    Line(<<"w", " ", "0", " ", "6", "0", " ", "1">>),
    Line(<<"w", " ", "1", " ", "1", "d", "f", " ", "F", "F">>),
    Line(<<"s", " ", "0", " ", "6", "0", " ", "1">>),
    Line(<<"s", " ", "1", " ", "1", "d", "f", " ", "3">>) }

(* the handler that answers a command *)
Answers(c) ==
    CASE c = "V" -> "print_version"
      [] c = "R" -> "exec_read_prom"
      [] c = "K" -> "exec_blank_check"
      [] c = "r" -> "exec_read_prom_byte"
      [] c = "w" -> "exec_write_prom_byte"
      [] c = "s" -> "exec_simul_write_prom_byte"
      [] OTHER -> NUL

(* C11: a command goes on after an address or value token made of          *)
(* hexadecimal digits, of any length, only if the number the token denotes *)
(* is below the cell count of the chip (address) or at most 255 (value);   *)
(* otherwise the device answers E and is back in ST_READY.                 *)
C11_BoundsEnforced ==
    /\ (last.fn = "get_address" /\ AllHex(Token)) =>
          IF Numeric(Token, 0) < chip_sizes[cmd_data.chip]
          THEN state # ST_READY /\ cmd_data.address = Numeric(Token, 0)
          ELSE state = ST_READY /\ last.out = println(<<"E">>)
    /\ (last.fn = "get_value" /\ AllHex(Token)) =>
          IF Numeric(Token, 0) <= 255
          THEN state # ST_READY /\ cmd_data.value = Numeric(Token, 0)
          ELSE state = ST_READY /\ last.out = println(<<"E">>)

(* C12: after an error the device is back in ST_READY and a well-formed    *)
(* request sent afterwards is executed by the handler of its command and   *)
(* answered with the one status line R.                                    *)
C12_NoFatalState ==
    (Quiescent /\ ErredBefore /\ req \in WellFormedRequests) =>
        /\ Answer = <<"R">>
        /\ last.fn = Answers(req[1])

(* C13: when the device has read every request line it was sent, it has    *)
(* printed as many status lines as it was sent lines.                      *)
C13_OneStatusPerLine ==
    (Quiescent /\ lines = sent) => Len(status) = lines

(* C14: a command character that no rule of the table has takes the       *)
(* machine to the error state: the scan of get_command stops at the        *)
(* terminating entry at the latest and returns, the error is answered with *)
(* E and ST_READY, and no execution handler runs for the character.        *)
C14_UnknownCommand ==
    /\ (last.fn = "get_command" /\ ~InTable(cmd_data.command)) =>
          /\ last.index <= Len(machine)
          /\ ~hung
    /\ (last.fn = "set_st_error" /\ ~InTable(cmd_data.command)) =>
          /\ state = ST_READY
          /\ last.out = println(<<"E">>)
    /\ ~InTable(cmd_data.command) => last.fn \notin ExecHandlers

----------------------------------------------------------------------------
(* Properties of the host program and of the link *)

(* what the programmer prints for "V" *)
VersionReply == println(VERSION) \o println(<<"R">>)

(* C15: for a "V" read in state Ready the programmer prints the version    *)
(* line and the R line, the 12 characters "V010000\r\nR\r\n", and is Ready   *)
(* again; command_init writes "V" at most 5 times, and when it returns     *)
(* SUCCESS the read it made last returned exactly these 12 characters,     *)
(* which its sscanf takes as a version with status R.                      *)
C15_VersionHandshake ==
    /\ last.fn = "print_version" =>
          /\ last.out = VersionReply
          /\ Len(last.out) = VERSION_BYTES
          /\ state = ST_READY
    /\ host.versions <= INIT_TRIES
    /\ host.init = SUCCESS =>
          /\ host.hello = VersionReply
          /\ sscanf_version(host.hello) = [n |-> 4, status |-> "R"]
    /\ host.init # SUCCESS => host.ret # SUCCESS

(* command_init succeeded at its second "V" or later *)
C15_Witness ==
    /\ host.init = SUCCESS
    /\ host.versions > 1
    /\ last.fn = "print_version"

(* the addresses of a memory image in the order command_execute visits     *)
(* them                                                                    *)
RECURSIVE Addresses(_)
Addresses(blocks) ==
    IF blocks = <<>> THEN <<>>
    ELSE [i \in 1..Head(blocks).count |-> Head(blocks).start + i - 1]
            \o Addresses(Tail(blocks))

(* a response that reads as a value and a status *)
Reads(a) == sscanf(a.buf, 8)

(* a response with status R and the byte of the image *)
Good(a) ==
    /\ Reads(a).n = 2
    /\ Reads(a).status = "R"
    /\ Reads(a).value = host.rw_buf[a.loc]

(* a response with status R and another value than the byte of the image *)
Differs(a) ==
    /\ Reads(a).n = 2
    /\ Reads(a).status = "R"
    /\ Reads(a).value # host.rw_buf[a.loc]

(* C16: when the response for an address has a value that differs from    *)
(* the byte of the image (all addresses before it had the expected        *)
(* value), command_execute has stopped: the wire command for that address  *)
(* is the last one written, the message names the address, the value read  *)
(* and the value expected, and the program returns FAILURE.                *)
C16_AbortAtFirstMismatch ==
    LET n == Len(host.answers)
    IN  (n > 0 /\ Differs(host.answers[n])) =>
            /\ \A i \in 1..(n - 1) : Good(host.answers[i])
            /\ host.answers[n].loc = Addresses(host.blocks)[n]
            /\ host.pc = "exit"
            /\ host.ret = FAILURE
            /\ host.err = "mismatch"
            /\ host.report = <<host.answers[n].loc, Reads(host.answers[n]).value,
                               host.rw_buf[host.answers[n].loc]>>
            /\ host.written = n
            /\ req = command_fn([host EXCEPT !.loc = host.answers[n].loc])

(* a value differs at an address that is followed by another block *)
C16_Witness ==
    /\ host.answers # <<>>
    /\ Differs(host.answers[Len(host.answers)])
    /\ host.b < Len(host.blocks)
    /\ host.pc = "exit"

(* every address of the memory image was sent and answered with status R  *)
(* and the byte of the image                                               *)
AllPassed ==
    /\ host.written = Len(Addresses(host.blocks))
    /\ Len(host.answers) = Len(Addresses(host.blocks))
    /\ \A i \in 1..Len(host.answers) :
          /\ host.answers[i].loc = Addresses(host.blocks)[i]
          /\ Good(host.answers[i])

(* command_execute was called, had its memory image and has returned *)
Executed ==
    /\ host.pc = "exit"
    /\ host.function \in {"command_write", "command_simul", "command_verify"}
    /\ host.err \notin {"aborted", "file"}

(* C17: command_execute returns SUCCESS exactly when for every address of *)
(* every block of the memory image a wire command was written and the      *)
(* response read for it had status R and the byte of the image.            *)
C17_SuccessIffAllPassed ==
    Executed => (host.ret = SUCCESS <=> AllPassed)

(* SUCCESS over two addresses *)
C17_Witness ==
    /\ Executed
    /\ host.ret = SUCCESS
    /\ Len(host.answers) >= 2

(* the serial_read calls a function may make after one serial_write *)
Budget ==
    CASE host.pc \in {"init_write", "init_read"} -> 1
      [] host.function = "command_read" -> READ_TRIES
      [] OTHER -> EXEC_TRIES

(* C18: after a request is written the host makes at most 5 reads (1000   *)
(* in command_read, 1 per "V" in command_init), and it writes at most 5    *)
(* "V" and one request per address of the image, so the calls of a run are *)
(* bounded; when the reads are used up and none returned a character the   *)
(* function has returned FAILURE with the no-response message and the      *)
(* program has exited with FAILURE, without another request.               *)
C18_ReadBudget ==
    /\ host.reads <= Budget
    /\ host.versions <= INIT_TRIES
    /\ host.written <= Len(Addresses(host.blocks))
    /\ sent <= host.versions + host.written + 1
    /\ (host.function # NUL /\ host.reads = Budget /\ host.returned = 0) =>
          /\ host.pc = "exit"
          /\ host.ret = FAILURE
          /\ host.err = "no_response"
    /\ host.err = "no_response" =>
          /\ host.pc = "exit"
          /\ host.ret = FAILURE
          /\ host.reads = Budget

(* verify: the programmer hangs in get_command and five reads time out *)
C18_Witness ==
    /\ host.function = "command_verify"
    /\ host.err = "no_response"
    /\ host.reads = EXEC_TRIES
    /\ host.pc = "exit"
    /\ hung

(* C19: when the host writes a request, every character the programmer    *)
(* printed for the requests before it has been read, and the programmer    *)
(* is not at work on an earlier request any more.                          *)
C19_OneInFlight ==
    /\ host.unread = 0
    /\ ~host.busy

(* C20: unless the line read from standard input is "YES" and a newline,  *)
(* command_write writes no wire command, the chips stay as they were and   *)
(* it returns FAILURE.                                                     *)
C20_ConfirmedWrite ==
    (host.function = "command_write" /\ host.stdin # <<"Y", "E", "S", "\n">>) =>
        /\ host.written = 0
        /\ prom = host.before
        /\ host.pc \in {"confirm", "exit"}
        /\ host.pc = "exit" => (host.ret = FAILURE /\ host.err = "aborted")

(* a write that was answered with the three letters and no newline *)
C20_Witness ==
    /\ host.function = "command_write"
    /\ host.stdin = <<"Y", "E", "S">>
    /\ host.pc = "exit"
    /\ host.ret = FAILURE

----------------------------------------------------------------------------
(* Vocabulary of the properties of the file formats: what a line of an    *)
(* Intel HEX file says, read from its characters.  Places count from 1,    *)
(* the start character.                                                    *)

ByteOf(line, p) == 16 * HexDigitValue(line[p]) + HexDigitValue(line[p + 1])

Count(line) == ByteOf(line, 2)

Address(line) == 256 * ByteOf(line, 4) + ByteOf(line, 6)

Type(line) == ByteOf(line, 8)

(* the data byte number i, from 0, and the check sum after the data *)
DataByte(line, i) == ByteOf(line, 10 + 2 * i)

Sum(line) == ByteOf(line, 10 + 2 * Count(line))

(* a start character and hexadecimal digits for all the fields *)
IsRecord(line) ==
    /\ Len(line) >= 11
    /\ line[1] = ":"
    /\ \A p \in 2..9 : isHexadecimalDigit(line[p])
    /\ Len(line) = 11 + 2 * Count(line)
    /\ \A p \in 10..Len(line) : isHexadecimalDigit(line[p])

(* a record of type 00 with data for the buffer *)
IsData(line) ==
    /\ IsRecord(line)
    /\ Count(line) > 0
    /\ Type(line) = 0
    /\ Address(line) < RW_BUF_SIZE

RECURSIVE SumOfData(_, _)
SumOfData(line, n) ==
    IF n = 0 THEN 0 ELSE SumOfData(line, n - 1) + DataByte(line, n - 1)

(* the two's complement of the sum of the count, the two bytes of the     *)
(* address and the data, in eight bits                                     *)
Expected(line) ==
    (256 - ((Count(line) + ByteOf(line, 4) + ByteOf(line, 6)
             + SumOfData(line, Count(line))) % 256)) % 256

(* ihex_read has returned from the file of the run *)
Decoded ==
    /\ host.pc \in {"decoded", "encoded"}
    /\ host.read.status # ABORTED

(* ihex_read_record was called for line k and returned SUCCESS *)
Accepted(k) ==
    \/ host.read.lines > k
    \/ /\ host.read.lines = k
       /\ \A i \in 1..Len(host.read.messages) : host.read.messages[i][2] # k

(* C25: a data record of type 00 that ihex_read_record was called for is  *)
(* accepted exactly when its check sum byte is the two's complement, in    *)
(* eight bits, of the sum of the byte count, the two bytes of the address  *)
(* and the data bytes; when it is not, the decode fails and the message    *)
(* names the line.                                                         *)
C25_ChecksumLaw ==
    Decoded =>
        \A k \in 1..Len(host.lines) :
            (host.read.lines >= k /\ IsData(host.lines[k])) =>
                /\ Accepted(k) <=> Sum(host.lines[k]) = Expected(host.lines[k])
                /\ Sum(host.lines[k]) # Expected(host.lines[k]) =>
                      /\ host.read.status = FAILURE
                      /\ host.read.messages = <<<<"bad checksum", k>>>>

(* the file of the run is a file that decodes with one digit of a data    *)
(* byte replaced by a digit of another value                               *)
Replaced ==
    /\ "edit" \in DOMAIN host
    /\ HexDigitValue(host.edit.digit)
          # HexDigitValue(host.edit.lines[host.edit.line][host.edit.place])

(* C26: when one hexadecimal digit of a data byte of a valid file is      *)
(* replaced by another digit, ihex_read returns FAILURE, its message names *)
(* the line of that record, and the list it hands back is empty.           *)
C26_DigitReplaced ==
    (Decoded /\ Replaced) =>
        /\ host.read.status = FAILURE
        /\ Len(host.read.messages) = 1
        /\ host.read.messages[1][2] = host.edit.line
        /\ host.read.blocks = <<>>

(* C27: when ihex_read returns FAILURE, whatever the cause, the list it   *)
(* stores in *blocks is empty: the blocks built so far were discarded.     *)
C27_FailureLeavesNoBlocks ==
    (Decoded /\ host.read.status = FAILURE) => host.read.blocks = <<>>

(* C28: ihex_read returns SUCCESS only for a file whose last line is the  *)
(* end record, :00000001FF and nothing more, and in which no line follows  *)
(* an end record.                                                          *)
C28_EndRecordIsLast ==
    (Decoded /\ host.read.status = SUCCESS) =>
        /\ host.lines # <<>>
        /\ \A k \in 1..Len(host.lines) :
              host.lines[k] = EndRecord <=> k = Len(host.lines)

(* the blocks of a file by the rule of the format, in the order of the    *)
(* file: a data record at the address after the last byte of the data      *)
(* record before it extends the block, any other data record opens one     *)
RECURSIVE BlocksOf(_, _, _)
BlocksOf(ls, acc, next) ==
    IF ls = <<>> THEN acc
    ELSE LET l == Head(ls)
         IN  IF ~IsData(l) THEN BlocksOf(Tail(ls), acc, next)
             ELSE IF acc # <<>> /\ Address(l) = next
             THEN BlocksOf(Tail(ls),
                           [acc EXCEPT ![Len(acc)].count = @ + Count(l)],
                           next + Count(l))
             ELSE BlocksOf(Tail(ls), Append(acc, Block(Address(l), Count(l))),
                           Address(l) + Count(l))

(* the number of data bytes in the lines *)
RECURSIVE DataBytes(_)
DataBytes(ls) ==
    IF ls = <<>> THEN 0
    ELSE (IF IsData(Head(ls)) THEN Count(Head(ls)) ELSE 0) + DataBytes(Tail(ls))

(* the byte the lines give for address a, by the last record that has it; *)
(* -1 when no record has it                                                *)
RECURSIVE Given(_, _)
Given(ls, a) ==
    IF ls = <<>> THEN -1
    ELSE LET l == ls[Len(ls)]
         IN  IF IsData(l) /\ a >= Address(l) /\ a < Address(l) + Count(l)
             THEN DataByte(l, a - Address(l))
             ELSE Given(SubSeq(ls, 1, Len(ls) - 1), a)

RECURSIVE SumOfCounts(_)
SumOfCounts(blocks) ==
    IF blocks = <<>> THEN 0 ELSE Head(blocks).count + SumOfCounts(Tail(blocks))

(* the list from its last block to its head *)
RECURSIVE Reverse(_)
Reverse(q) == IF q = <<>> THEN <<>> ELSE Append(Reverse(Tail(q)), Head(q))

(* C29: after a decode that returned SUCCESS the blocks are those the     *)
(* rule gives (a record that does not continue the record before it opens  *)
(* a block at its load address, a record that does extends the count), the *)
(* counts add up to the number of data bytes of the file, and for every    *)
(* block and every i below its count the cell start + i of the image holds *)
(* the byte the file gives for that address.                               *)
C29_BlocksOfFile ==
    (Decoded /\ host.read.status = SUCCESS) =>
        /\ Reverse(host.read.blocks) = BlocksOf(host.lines, <<>>, -1)
        /\ SumOfCounts(host.read.blocks) = DataBytes(host.lines)
        /\ \A n \in 1..Len(host.read.blocks) :
              \A i \in 0..(host.read.blocks[n].count - 1) :
                 LET a == host.read.blocks[n].start + i
                 IN  /\ a \in DOMAIN host.read.data
                     /\ host.read.data[a] = Given(host.lines, a)

(* the places in a text where a line starts with the start character *)
Starts(text) ==
    {p \in 1..Len(text) : text[p] = ":" /\ (p = 1 \/ text[p - 1] = "\n")}

(* the record that starts at place p, when the text has all of it *)
RecordAt(text, p) ==
    IF p + 2 <= Len(text) /\ isHexadecimalDigit(text[p + 1])
       /\ isHexadecimalDigit(text[p + 2])
       /\ p + 10 + 2 * ByteOf(text, p + 1) <= Len(text)
    THEN SubSeq(text, p, p + 10 + 2 * ByteOf(text, p + 1))
    ELSE <<>>

(* the byte a text records for address a, by its last data record that    *)
(* has the address; -1 when none has it                                    *)
Recorded(text, a) ==
    LET S == {p \in Starts(text) :
                 LET l == RecordAt(text, p)
                 IN  IsData(l) /\ a >= Address(l) /\ a < Address(l) + Count(l)}
    IN  IF S = {} THEN -1
        ELSE LET p == CHOOSE q \in S : \A r \in S : r <= q
                 l == RecordAt(text, p)
             IN  DataByte(l, a - Address(l))

(* C30: when the image ihex_read decoded from a file is written by        *)
(* ihex_write with the base address of the image, the file written records *)
(* for every address of the blocks of the file that was read the byte that *)
(* file gives for it.                                                      *)
C30_RoundTrip ==
    (host.pc = "encoded" /\ host.written.status = SUCCESS) =>
        \A n \in 1..Len(host.read.blocks) :
            \A i \in 0..(host.read.blocks[n].count - 1) :
               LET a == host.read.blocks[n].start + i
               IN  Recorded(host.written.text, a) = Given(host.lines, a)

----------------------------------------------------------------------------
(* The host program on input files *)

(* command_write, command_simul or command_verify with a binary file *)
Binary(f) ==
    /\ host.function = f
    /\ "file" \in DOMAIN host.ifile
    /\ host.ifile.format = BIN

(* the size of the file as bin_read takes it: ftell in a uint16_t *)
Taken == host.ifile.file.size % 65536

Covered == Min(host.ifile.file.size, chip_sizes[host.chip])

(* the response for address i - 1 has status R and the byte of the file *)
ReadBack(i) ==
    /\ host.answers[i].loc = i - 1
    /\ Reads(host.answers[i]).n = 2
    /\ Reads(host.answers[i]).status = "R"
    /\ Reads(host.answers[i]).value = ByteAt(host.ifile.file, i - 1)

(* C22: for a binary input file of n bytes, command_write sends the wire   *)
(* commands for the addresses 0 .. min(n, chip size) - 1 in ascending      *)
(* order, each with the file byte at that offset, sends none for another   *)
(* address, and returns SUCCESS when every one of those cells read back    *)
(* equal to its file byte (and only after all of them were written).       *)
C22_BinaryWrite ==
    (Binary("command_write") /\ Executed) =>
        /\ host.written <= Covered
        /\ \A i \in 1..Len(host.answers) :
              /\ host.answers[i].loc = i - 1
              /\ host.rw_buf[i - 1] = ByteAt(host.ifile.file, i - 1)
        /\ host.ret = SUCCESS => host.written = Covered
        /\ (/\ Len(host.answers) = Covered
            /\ \A i \in 1..Covered : ReadBack(i)) => host.ret = SUCCESS


(* command_write, command_simul or command_verify with an Intel-HEX file *)
Hex ==
    /\ host.function \in {"command_write", "command_simul", "command_verify"}
    /\ "file" \in DOMAIN host.ifile
    /\ host.ifile.format = IHEX

(* the addresses the data records of the lines have bytes for *)
CoveredBy(ls) ==
    UNION {Address(ls[i])..(Address(ls[i]) + Count(ls[i]) - 1) :
             i \in {j \in 1..Len(ls) : IsData(ls[j])}}

(* C23: with an Intel-HEX input file every wire command command_execute   *)
(* has written, and every response it has read, is for an address that a   *)
(* data record of the file has a byte for; when it has returned SUCCESS a   *)
(* command was written and answered for every such address.                 *)
C23_OnlyCoveredAddresses ==
    Hex =>
        /\ \A i \in 1..Len(host.answers) :
              host.answers[i].loc \in CoveredBy(host.ifile.lines)
        /\ host.written > 0 =>
              \E a \in CoveredBy(host.ifile.lines) :
                  req = command_fn([host EXCEPT !.loc = a])
        /\ host.written <= Len(host.answers) + 1
        /\ (host.pc = "exit" /\ host.ret = SUCCESS) =>
              /\ {host.answers[i].loc : i \in 1..Len(host.answers)}
                    = CoveredBy(host.ifile.lines)
              /\ host.written = Len(host.answers)

(* SUCCESS over the three addresses of two records that make two blocks *)
C23_Witness ==
    /\ Hex
    /\ host.pc = "exit"
    /\ host.ret = SUCCESS
    /\ Len(host.blocks) = 2
    /\ host.written = 3


(* the positions in the address list of the image whose cell differs from *)
(* the byte of the image                                                   *)
Differing ==
    {i \in 1..Len(Addresses(host.blocks)) :
        Cell(prom, host.chip, Addresses(host.blocks)[i])
            # host.rw_buf[Addresses(host.blocks)[i]]}

(* the least position of Differing *)
FirstDiffering == CHOOSE i \in Differing : \A j \in Differing : i <= j

(* C24: when command_verify has run, without a failure of serial_write or  *)
(* serial_read, over an image whose addresses are all cells of the chip,    *)
(* it has returned SUCCESS if every cell of the image                       *)
(* equals the byte of the image, and otherwise it has returned FAILURE       *)
(* after the message that names the first differing address, the value      *)
(* read and the value expected.                                              *)
C24_VerifyEndToEnd ==
    (/\ host.function = "command_verify"
     /\ Executed
     /\ host.err # "io"
     /\ \A i \in 1..Len(Addresses(host.blocks)) :
           Addresses(host.blocks)[i] < chip_sizes[host.chip]) =>
        IF Differing = {}
        THEN host.ret = SUCCESS
        ELSE LET a == Addresses(host.blocks)[FirstDiffering]
             IN  /\ host.ret = FAILURE
                 /\ host.err = "mismatch"
                 /\ host.report = <<a, Cell(prom, host.chip, a), host.rw_buf[a]>>

----------------------------------------------------------------------------
(* The file ihex_write writes *)

(* the place of the first new line of a text, 0 when it has none *)
NewLine(text) ==
    IF \E p \in 1..Len(text) : text[p] = "\n"
    THEN CHOOSE p \in 1..Len(text) :
            text[p] = "\n" /\ \A q \in 1..(p - 1) : text[q] # "\n"
    ELSE 0

(* the lines of a text, each without its new line *)
RECURSIVE LinesOf(_)
LinesOf(text) ==
    IF text = <<>> THEN <<>>
    ELSE IF NewLine(text) = 0 THEN <<text>>
    ELSE <<SubSeq(text, 1, NewLine(text) - 1)>>
            \o LinesOf(SubSeq(text, NewLine(text) + 1, Len(text)))

(* ihex_write was called on an image and has written the file *)
Encoded ==
    /\ host.pc \in {"written", "reread"}
    /\ host.written.status = SUCCESS

(* the number of data records for size bytes *)
Records(size) ==
    (size + INTEL_WRITE_BYTES_PER_LINE - 1) \div INTEL_WRITE_BYTES_PER_LINE

(* C31: the file ihex_write writes for an image of size >= 1 is, line by   *)
(* line, one data record of type 00 for every 32 bytes of the image, each   *)
(* of 32 data bytes but the last, which has the bytes that remain, at the   *)
(* load addresses base, base + 32, base + 64, ..., with the bytes of the    *)
(* image in order and a check sum that makes the sum of count, address      *)
(* bytes, type, data bytes and check sum 0 modulo 256, and then the end     *)
(* record as the last line.                                                 *)
C31_WrittenFormat ==
    Encoded =>
        LET text == host.written.text
            ls == LinesOf(text)
            k == Records(host.size)
        IN  /\ text[Len(text)] = "\n"
            /\ Len(ls) = k + 1
            /\ ls[k + 1] = EndRecord
            /\ \A j \in 1..k :
                  /\ IsRecord(ls[j])
                  /\ Type(ls[j]) = 0
                  /\ Count(ls[j]) =
                        IF j < k THEN INTEL_WRITE_BYTES_PER_LINE
                        ELSE host.size - INTEL_WRITE_BYTES_PER_LINE * (k - 1)
                  /\ Address(ls[j])
                        = host.base + INTEL_WRITE_BYTES_PER_LINE * (j - 1)
                  /\ \A i \in 0..(Count(ls[j]) - 1) :
                        DataByte(ls[j], i)
                           = host.data[INTEL_WRITE_BYTES_PER_LINE * (j - 1) + i]
                  /\ (Count(ls[j]) + (Address(ls[j]) \div 256)
                        + (Address(ls[j]) % 256) + Type(ls[j])
                        + SumOfData(ls[j], Count(ls[j])) + Sum(ls[j])) % 256 = 0

(* an image of 33 bytes was written from base address 255: the second      *)
(* record has one byte and an address above 0xFF                            *)
C31_Witness ==
    /\ Encoded
    /\ host.size = 33
    /\ host.base = 255
    /\ host.data[1] # host.data[0]

----------------------------------------------------------------------------
(* The electrical sequence of a burn *)

(* a change of a control line, a delay, or the mark of prog_bit or of       *)
(* read_bit (the data lines of port L and the address lines are left out)   *)
IsControl(e) ==
    e[1] \in {"VCC_EN", "VCC_10V5", "S1", "S2", "delay", "delayMicroseconds",
              "prog_bit", "read_bit"}

(* chip and output enable as output_enable and output_disable drive them *)
Enables(chip_type) ==
    IF CHIP_256X8 = chip_type THEN <<<<"S2", LOW>>, <<"S1", LOW>>>>
    ELSE <<<<"S1", LOW>>>>

Disables(chip_type) ==
    IF CHIP_256X8 = chip_type THEN <<<<"S2", HIGH>>, <<"S1", HIGH>>>>
    ELSE <<<<"S1", HIGH>>>>

(* one burn of the bit of mask, from the supply at 5 V to the cooling delay *)
BurnOf(chip_type, mask, programmed) ==
    <<<<"VCC_EN", LOW>>, <<"prog_bit", mask>>, <<"VCC_10V5", HIGH>>,
      <<"delayMicroseconds", 100>>>>
      \o Enables(chip_type)
      \o <<<<"delay", PROG_PULSE_LENGTH>>>>
      \o Disables(chip_type)
      \o <<<<"VCC_10V5", LOW>>, <<"delayMicroseconds", 10>>>>
      \o Enables(chip_type)
      \o <<<<"read_bit", mask, programmed>>>>
      \o Disables(chip_type)
      \o <<<<"VCC_EN", HIGH>>, <<"delay", PROG_COOLING_DELAY>>>>

(* C32: in a real write every burn of a bit is, on the control lines, this  *)
(* sequence and nothing else: supply on at 5 V, 10.5 V enabled, settle      *)
(* delay, chip and output enable asserted, pulse delay, enable              *)
(* de-asserted, 10.5 V disabled, (10 us,) the bit read back with the        *)
(* outputs enabled at 5 V, supply off, cooling delay.  The 10.5 V supply    *)
(* is enabled nowhere else, so the outputs are enabled at 10.5 V only for   *)
(* the pulse, and every pulse but the last is followed by its cooling       *)
(* delay before the next one.                                               *)
C32_BurnSequence ==
    Wrote =>
        LET L == SelectSeq(log, IsControl)
            n == Len(BurnOf(cmd_data.chip, 1, TRUE))
        IN  /\ \A p \in 1..Len(L) :
                  L[p][1] = "prog_bit" =>
                      /\ p > 1
                      /\ p - 2 + n <= Len(L)
                      /\ \E programmed \in BOOLEAN :
                            SubSeq(L, p - 1, p - 2 + n)
                               = BurnOf(cmd_data.chip, L[p][2], programmed)
            /\ \A p \in 1..Len(L) :
                  L[p] = <<"VCC_10V5", HIGH>> => (p > 1 /\ L[p - 1][1] = "prog_bit")
            /\ \A p \in 1..Len(L) :
                  L[p] = <<"delay", PROG_PULSE_LENGTH>> =>
                      (p > 4 /\ L[p - Len(Enables(cmd_data.chip)) - 2]
                                   = <<"VCC_10V5", HIGH>>)

(* three bits were burnt and the third did not verify *)
C32_Witness ==
    /\ Wrote
    /\ Len(Pulses) = 3
    /\ ~Verified

----------------------------------------------------------------------------
(* The board while the interpreter waits for a command *)

(* C33: whenever the interpreter is in state ST_READY (after start-up,     *)
(* after a command that ended with R and after an error) the supply of the  *)
(* chip is off, the 10.5 V supply is disabled and the outputs of neither    *)
(* chip are enabled.                                                        *)
C33_ReadyIsPoweredDown ==
    state = ST_READY =>
        /\ hw.VCC_EN = HIGH
        /\ hw.VCC_10V5 = LOW
        /\ hw.S1 = HIGH
        /\ \A c \in 0..(NUM_CHIPS - 1) : ~OutputsEnabled(c, hw)

(* ready again after a write that burnt a bit of the 512x8 chip *)
C33_Witness ==
    /\ state = ST_READY
    /\ Wrote
    /\ Pulses # <<>>
    /\ cmd_data.chip = CHIP_512X8

(* ready again after an error *)
C33_WitnessError ==
    /\ state = ST_READY
    /\ tx # <<>>
    /\ tx[Len(tx) - 2] = "E"

----------------------------------------------------------------------------
(* Write requests the interpreter rejects *)

(* the tokens of a request line, split at white space *)
RECURSIVE Fields(_, _, _)
Fields(s, cur, acc) ==
    IF s = <<>> THEN (IF cur = <<>> THEN acc ELSE Append(acc, cur))
    ELSE IF isSpace(Head(s))
         THEN Fields(Tail(s), <<>>, IF cur = <<>> THEN acc ELSE Append(acc, cur))
         ELSE Fields(Tail(s), Append(cur, Head(s)), acc)

(* a write request with a chip that is neither 0 nor 1, an address that is *)
(* not hexadecimal or not below the cell count of the chip, or a value     *)
(* that is not hexadecimal or above 0xFF                                   *)
RejectedWrite(line) ==
    LET f == Fields(line, <<>>, <<>>)
        BadChip == f[2] \notin {<<"0">>, <<"1">>}
        Size == chip_sizes[HexDigitValue(f[2][1])]
        BadAddress == ~AllHex(f[3]) \/ Numeric(f[3], 0) >= Size
        BadValue == ~AllHex(f[4]) \/ Numeric(f[4], 0) > 255
    IN  /\ Len(f) >= 2
        /\ f[1] = <<"w">>
        /\ \/ BadChip
           \/ Len(f) >= 3 /\ BadAddress
           \/ Len(f) >= 4 /\ ~BadAddress /\ BadValue

(* C34: while a rejected write request is the only request the programmer  *)
(* was sent, the supply of the chip stays off, no handler of a cell runs,   *)
(* no programming pulse is applied and every cell is as it was, and what    *)
(* the programmer has printed when it has read the whole line is the one    *)
(* line E.                                                                  *)
C34_RejectedWriteIsInert ==
    (sent = 1 /\ RejectedWrite(req)) =>
        /\ hw.VCC_EN = HIGH
        /\ hw.VCC_10V5 = LOW
        /\ last.fn \notin CellHandlers
        /\ Pulses = <<>>
        /\ prom \in Images
        /\ ~hung
        /\ Quiescent => tx = println(<<"E">>)

----------------------------------------------------------------------------
(* The read requests of command_execute *)

(* C35: a request command_execute writes for command_verify has the three  *)
(* tokens r, chip and address; the rules of r read the whole line, so the   *)
(* programmer does not hang on it and prints no status line E.              *)
C35_ReadRequestGrammar ==
    (host.function = "command_verify" /\ host.written > 0) =>
        /\ req[1] = "r"
        /\ Len(Fields(req, <<>>, <<>>)) = 3
        /\ ~hung
        /\ \A i \in 1..Len(status) : status[i] = "R"

----------------------------------------------------------------------------
(* Responses that arrive in parts *)

(* what the programmer prints for a cell that holds the byte of the image: *)
(* the value line and the R line                                           *)
WellFormedResponse(a) ==
    println(printNumber(host.rw_buf[a.loc], 16)) \o println(<<"R">>)

(* the characters s are the first part of t *)
IsPart(s, t) == s # <<>> /\ Len(s) <= Len(t) /\ SubSeq(t, 1, Len(s)) = s

(* C36: when what command_execute read for an address is the well-formed   *)
(* response with the byte of the image, or the first part of it with the    *)
(* rest still to arrive, the address is accepted: command_execute does not  *)
(* stop with the bad-response or the mismatch message.                      *)
C36_SplitResponseAccepted ==
    LET n == Len(host.answers)
    IN  (n > 0 /\ IsPart(host.answers[n].buf, WellFormedResponse(host.answers[n]))) =>
            host.err \notin {"bad_response", "mismatch"}

----------------------------------------------------------------------------
(* The stores of the decoder *)

(* C37: every byte ihex_read_record stores for a file is stored at an      *)
(* index below buffer_size, the 4096 bytes of rw_buf: nothing is stored in  *)
(* the memory after the buffer, also for a record whose load address is     *)
(* below buffer_size and whose last byte is not.                            *)
C37_StoresInsideBuffer ==
    Decoded =>
        /\ DOMAIN host.read.beyond = {}
        /\ \A a \in DOMAIN host.read.data : a < RW_BUF_SIZE

----------------------------------------------------------------------------
(* Writing an image and reading it back *)

(* C38: when ihex_read has read the file ihex_write wrote for an image of   *)
(* size bytes with base address 0, it has returned SUCCESS, the buffer      *)
(* holds the bytes of the image at the addresses 0 .. size - 1 and the      *)
(* list is the one block that starts at 0 and counts size bytes.            *)
C38_EncodeDecode ==
    (host.pc = "reread" /\ host.base = 0) =>
        /\ host.read.status = SUCCESS
        /\ \A a \in 0..(host.size - 1) :
              /\ a \in DOMAIN host.read.data
              /\ host.read.data[a] = host.data[a]
        /\ host.read.blocks = <<[start |-> 0, count |-> host.size]>>

----------------------------------------------------------------------------
(* The address bus *)

(* the pins of the address bus of a chip: port A, and PC7 for the 512x8    *)
(* chips                                                                   *)
AddressPins(chip_type, pins) ==
    IF CHIP_256X8 = chip_type THEN <<pins.PORTA>>
    ELSE <<pins.PORTA, pins.PORTC \div 128>>

(* C39: after a read of a cell, port A holds the 8 bits of the address for  *)
(* the 256x8 chip; for the 512x8 chip PA0..PA4 hold the address bits 0..4,  *)
(* PC7 holds bit 5, PA5..PA7 hold the bits 6..8 and the other bits of port  *)
(* C are as they were.  No other address of the chip gives the pins the     *)
(* same values.                                                             *)
C39_AddressMapping ==
    last.fn = "exec_read_prom_byte" =>
        /\ IF CHIP_256X8 = cmd_data.chip
           THEN \A n \in 0..7 : Bit(hw.PORTA, n) = Bit(cmd_data.address, n)
           ELSE /\ \A n \in 0..4 : Bit(hw.PORTA, n) = Bit(cmd_data.address, n)
                /\ Bit(hw.PORTC, 7) = Bit(cmd_data.address, 5)
                /\ \A n \in 5..7 : Bit(hw.PORTA, n) = Bit(cmd_data.address, n + 1)
                /\ \A n \in 0..6 : Bit(hw.PORTC, n) = Bit(host.PORTC, n)
        /\ \A other \in 0..(chip_sizes[cmd_data.chip] - 1) :
              other # cmd_data.address =>
                  AddressPins(cmd_data.chip,
                              set_address(Board, cmd_data.chip, other).hw)
                      # AddressPins(cmd_data.chip, hw)

(* cell 0x120 of the 512x8 chip was read, and PC7 went from low to high *)
C39_Witness ==
    /\ last.fn = "exec_read_prom_byte"
    /\ cmd_data.chip = CHIP_512X8
    /\ cmd_data.address = 288
    /\ host.PORTC \div 128 = LOW
    /\ hw.PORTC \div 128 = HIGH

============================================================================
